---- MODULE Spec2Model ----
(***************************************************************************)
(* Creato AI: the generation pipeline of src/services/geminiService.ts     *)
(* (the module App.tsx imports): retry, generateContent,                   *)
(* generateStudioImage and generateStudioAudio, as a state machine whose   *)
(* steps are the awaits of the code (remote calls and timers).             *)
(***************************************************************************)
EXTENDS Integers, Sequences, FiniteSets, TLC

VARIABLES
  pc,               \* position of generateContent
  apiKey,           \* process.env.API_KEY as the build defines it
  data,             \* JSON.parse(response.text || '{}')
  i,                \* image loop index
  images,           \* images: string[]
  isQuotaExhausted, \* the quota flag of the run
  thumbnail,        \* thumbnail
  audio,            \* what generateStudioAudio resolved with
  progress,         \* the values passed to onProgress, in order
  sleeps,           \* the pacing sleeps of generateContent, in order
  called,           \* stages for which a remote call has been issued
  imgErr,           \* per slot, then for the thumbnail: the error caught (NoErr if none)
  targetWordCount,  \* targetWordCount of generateContent (0 before it is computed)
  audioFail,        \* why generateStudioAudio returned the empty artifact ("no" if it did not)
  settled,          \* how generateContent settled
  rState,           \* position of the running retry()
  rCaller,          \* who runs retry(): a stage of the pipeline or the harness
  rRetries,         \* retry's parameter retries
  rDelay0,          \* retry's parameter initialDelay
  rI,               \* retry's loop index i
  currentDelay,     \* retry's currentDelay
  rCalls,           \* number of invocations of fn in this retry()
  rWaits,           \* the waitTime of each sleep of this retry(), in order
  rErrs,            \* the errors fn rejected with in this retry(), in order
  fnOut,            \* the value fn last resolved with
  rOut,             \* how retry() settled
  inFlight,         \* number of remote calls issued and not yet settled
  nCalls,           \* remote calls of the run so far where they are counted (-1: not counted)
  config,           \* the StudioConfig of App.tsx, which generateContent receives
  audioParams,      \* the speech request generateStudioAudio builds
  decoded,          \* the bytes atob decoded from the speech response
  pcmData,          \* pcmData: Uint8Array, as it is wrapped
  hdrArgs,          \* the arguments createWavHeader was called with
  wavHeader,        \* what createWavHeader returned
  combined,         \* combined: the bytes of the container
  uiPrompt,         \* the prompt state of App
  loading,          \* the loading state of App: a run is under way
  runConfig,        \* the config handleGenerate last passed to generateContent
  phRun,            \* two runs that substitute a placeholder: slot, aspect ratio, reason
  phUri,            \* the placeholder each of the two runs pushed
  imgOut,           \* how generateStudioImage, run by itself, settled
  store,            \* the object store 'history' of the database: a set of records
  lastWrite,        \* the last readwrite transaction that completed
  loaded,           \* what loadHistoryFromDB resolved with since then
  history,          \* the history state of App
  result,           \* the result state of App
  hg,               \* the running handleGenerate: position, captured history, outcome
  rg,               \* the running handleRegenerateClip and handleRegenerateThumbnail:
                    \* position, captured history and result of each
  ch,               \* the running clearHistory: position, and the clock when it was called
  alerts,           \* the alerts handleGenerate has shown, with their cause
  dbCalls,          \* the calls of the database functions, with their caller
  clock,            \* Date.now(), which also names the next crypto.randomUUID()
  started           \* how many productions, regenerations and clears were started

vars == <<pc, apiKey, targetWordCount, data, i, images, isQuotaExhausted, thumbnail, audio,
          progress, sleeps, called, imgErr, audioFail, settled, rState, rCaller, rRetries,
          rDelay0, rI, currentDelay, rCalls, rWaits, rErrs, fnOut, rOut, inFlight, nCalls,
          config, audioParams, decoded, pcmData, hdrArgs, wavHeader, combined,
          uiPrompt, loading, runConfig, phRun, phUri, imgOut,
          store, lastWrite, loaded, history, result, hg, rg, ch, alerts, dbCalls, clock,
          started>>

\* the byte-level state of the audio adapter
audioVars == <<audioParams, decoded, pcmData, hdrArgs, wavHeader, combined>>

\* the state of the harnesses that run one function or one handler on its own
\* the database
dbVars == <<store, lastWrite, loaded>>

\* the history side of App
appVars == <<history, result, hg, rg, ch, alerts, dbCalls, clock, started>>

harnessVars == <<phRun, phUri, imgOut, dbVars, appVars>>

\* what the pipeline and retry never write
sideVars == <<config, audioVars, uiPrompt, loading, runConfig, harnessVars>>

gcVars == <<pc, apiKey, targetWordCount, data, i, images, isQuotaExhausted, thumbnail, audio,
            progress, sleeps, imgErr, audioFail, settled>>

\* ---------------------------------------------------------------- bounds
\* longest imagePrompts list a text response carries
MaxPrompts == 4
\* largest retries parameter the retry harness draws
MaxRetries == 3

\* largest durationMinutes generateContent is called with
MaxMinutes == 5
\* most 16-bit samples a decoded speech payload carries
MaxSamples == 2
\* most content parts an image response carries
MaxParts == 2
\* longest list saveHistoryToDB is called with when it is run by itself
MaxItems == 2
\* productions, regenerations and clears the user starts in one session
MaxRuns == 2
MaxRegens == 1
MaxClears == 1
\* handlers of the history the user starts in one session, of any kind
MaxClicks == 2

\* ------------------------------------------------------ program constants
TextRetries == 3
TextInitialDelay == 3000
ImageRetries == 2
ImageInitialDelay == 4000
AudioRetries == 1
AudioInitialDelay == 5000
RateLimitFactor == 3
ImageGap == 2500
ThumbGap == 3000
NumImages == 4
WavSampleRate == 24000

\* the initialDelay values the retry harness draws
InitialDelays == {1000, 3000, 4000, 5000}

\* the content formats and aspect ratios of the UI
ContentTypes == {"Reel", "Long", "Podcast", "News"}

AspectRatios == {"9:16", "16:9"}

\* a volume factor as a fraction
Factor(num, den) == [num |-> num, den |-> den]

\* defaultVal of the config state
DefaultConfig ==
  [contentType |-> "Reel", aspectRatio |-> "9:16", voiceId |-> "v1", speed |-> "Normal",
   volume |-> Factor(1, 1), durationMinutes |-> 0, durationSeconds |-> 30]

NoErr == [name |-> "none", hasMessage |-> FALSE, msgMarks |-> {}, jsonMarks |-> {}]
NoValue == [kind |-> "none"]

\* ----------------------------------------------------------------- errors
\* An error value: whether error.message is truthy, and which of the
\* substrings the code searches for occur in error.message and in
\* JSON.stringify(error).
Err(name, hasMessage, msgMarks, jsonMarks) ==
  [name |-> name, hasMessage |-> hasMessage, msgMarks |-> msgMarks,
   jsonMarks |-> jsonMarks]

NetError      == Err("network", TRUE, {}, {})
Error429      == Err("remote429", TRUE, {"429"}, {})
ErrorResExh   == Err("remoteResourceExhausted", TRUE, {"RESOURCE_EXHAUSTED"}, {})
Error403      == Err("remote403", TRUE, {"403"}, {})
Error429Auth  == Err("remote429NotFound", TRUE, {"429", "not found"}, {})
ErrorObj429   == Err("remoteObject429", FALSE, {}, {"429"})

\* new Error("API Key issue: Please check your Netlify Environment Variables ...")
CredentialError == Err("ApiKeyIssue", TRUE, {}, {})
\* new Error("API_KEY is missing. ...")
MissingKeyError == Err("ApiKeyMissing", TRUE, {}, {})
\* new Error("Asset generation failed.")
NoImageError == Err("AssetGenerationFailed", TRUE, {}, {})
\* what JSON.parse throws on an unparsable body
SyntaxError == Err("SyntaxError", TRUE, {}, {})
\* what reading a property of null throws
TypeError == Err("TypeError", TRUE, {}, {})

\* the errors a remote call may reject with
PipelineErrors == {NetError, Error429, ErrorResExh, Error403}
HarnessErrors == PipelineErrors \cup {Error429Auth, ErrorObj429}

\* error?.message || JSON.stringify(error): the markers the string contains
errorMsg(e) == IF e.hasMessage THEN e.msgMarks ELSE e.jsonMarks

isRateLimit(e) == "429" \in errorMsg(e) \/ "RESOURCE_EXHAUSTED" \in errorMsg(e)

isAuthError(e) ==
  \/ "403" \in errorMsg(e)
  \/ "API_KEY_INVALID" \in errorMsg(e)
  \/ "not found" \in errorMsg(e)

\* err.message?.includes('429')
messageIncludes429(e) == e.hasMessage /\ "429" \in e.msgMarks

\* a wait that ignores the rate-limit signal
waitTimeFlat(e, delay) == delay

\* waitTime = isRateLimit ? currentDelay * 3 : currentDelay
waitTime(e, delay) == IF isRateLimit(e) THEN delay * RateLimitFactor ELSE delay

\* --------------------------------------------------- the remote capability
ImageStage(k) == <<"image0", "image1", "image2", "image3">>[k + 1]

\* response.text of the text call: absent or empty, not JSON, the JSON null,
\* or a JSON object whose imagePrompts is absent (-1) or a list of n prompts;
\* own: which of the names the result sets itself the object carries too
TextResponses ==
  {[kind |-> "text", text |-> t, imagePrompts |-> -1, own |-> {}] :
     t \in {"empty", "invalid", "null", "object"}}
  \cup {[kind |-> "text", text |-> "object", imagePrompts |-> n, own |-> {}] : n \in 0..MaxPrompts}

\* a content part: inlineData absent ("none") or the base64 data it carries
TextPart == [inlineData |-> "none"]

InlinePart(d) == [inlineData |-> d]

Payloads == {"img", "alt"}

\* response.candidates?.[0]?.content?.parts || [] : lists of up to n parts
PartLists(n) ==
  UNION {[1..m -> {TextPart} \cup {InlinePart(d) : d \in Payloads}] : m \in 0..n}

\* the image responses of a pipeline run: a text part only, or the image
ImageResponses ==
  {[kind |-> "image", parts |-> p] : p \in {<<TextPart>>, <<InlinePart("img")>>}}

\* the image responses generateStudioImage is run on by itself
AnyImageResponses == {[kind |-> "image", parts |-> p] : p \in PartLists(MaxParts)}

\* a speech response: no inline payload, a base64 payload, or a payload atob rejects
AudioResponses == {[kind |-> "audio", payload |-> p] : p \in {"none", "pcm", "undecodable"}}

\* what fn may resolve with, by caller; the harness fn returns a value that
\* names the invocation that produced it
Responses(caller, call) ==
  IF caller = "text"
  THEN IF nCalls < 0 THEN TextResponses
       ELSE \* where the calls are counted, the prompts list is left out
            {r \in TextResponses : r.imagePrompts = -1}
  ELSE IF caller = "audio" THEN AudioResponses
  ELSE IF caller = "harness" THEN {[kind |-> "value", call |-> call]}
  ELSE IF caller = "studioImage" THEN AnyImageResponses
  ELSE ImageResponses

FnErrors(caller) == IF caller = "harness" THEN HarnessErrors ELSE PipelineErrors

\* ------------------------------------------------------------------ retry
retryVars == <<rState, rCaller, rRetries, rDelay0, rI, currentDelay, rCalls,
               rWaits, rErrs, fnOut, rOut>>

\* retry(fn, retries, initialDelay) entered: currentDelay = initialDelay, i = 0
retryEnter(caller, retries, initialDelay) ==
  /\ rState' = "ready"
  /\ rCaller' = caller
  /\ rRetries' = retries
  /\ rDelay0' = initialDelay
  /\ rI' = 0
  /\ currentDelay' = initialDelay
  /\ rCalls' = 0
  /\ rWaits' = <<>>
  /\ rErrs' = <<>>
  /\ fnOut' = NoValue
  /\ rOut' = NoValue

\* the caller has taken retry's outcome: the frame is gone
retryLeave ==
  /\ rState' = "off"
  /\ rCaller' = "nobody"
  /\ rRetries' = 0
  /\ rDelay0' = 0
  /\ rI' = 0
  /\ currentDelay' = 0
  /\ rCalls' = 0
  /\ rWaits' = <<>>
  /\ rErrs' = <<>>
  /\ fnOut' = NoValue
  /\ rOut' = NoValue

\* a retry that issues its next attempt while the previous one is pending
retry_CallNoAwait ==
  /\ rState \in {"ready", "inflight"}
  /\ rI <= rRetries
  /\ rState' = "inflight"
  /\ rCalls' = rCalls + 1
  /\ inFlight' = inFlight + 1
  /\ nCalls' = IF nCalls < 0 THEN nCalls ELSE nCalls + 1
  /\ called' = called \cup {rCaller}
  /\ UNCHANGED <<rCaller, rRetries, rDelay0, rI, currentDelay, rWaits, rErrs, fnOut, rOut>>
  /\ UNCHANGED gcVars
  /\ UNCHANGED sideVars

\* for (i <= retries) { try { ... fn() : the remote call is issued
retry_Call ==
  /\ rState = "ready"
  /\ rI <= rRetries
  /\ rState' = "inflight"
  /\ rCalls' = rCalls + 1
  /\ inFlight' = inFlight + 1
  /\ nCalls' = IF nCalls < 0 THEN nCalls ELSE nCalls + 1
  /\ called' = called \cup {rCaller}
  /\ UNCHANGED <<rCaller, rRetries, rDelay0, rI, currentDelay, rWaits, rErrs, fnOut, rOut>>
  /\ UNCHANGED gcVars
  /\ UNCHANGED sideVars

\* return await fn(): fn resolved
fn_Resolve ==
  /\ rState = "inflight"
  /\ \E v \in Responses(rCaller, rCalls) :
       /\ fnOut' = v
       /\ rOut' = [kind |-> "resolved", val |-> v]
  /\ rState' = "resolved"
  /\ inFlight' = inFlight - 1
  /\ UNCHANGED nCalls
  /\ UNCHANGED <<rCaller, rRetries, rDelay0, rI, currentDelay, rCalls, rWaits, rErrs, called>>
  /\ UNCHANGED gcVars
  /\ UNCHANGED sideVars

\* a catch block that compares the loop index with retries + 1
retryCatchOffByOne(e, ri, retries, delay) ==
  IF isAuthError(e) THEN [next |-> "rejected", err |-> CredentialError, wait |-> 0]
  ELSE IF ri = retries + 1 THEN [next |-> "rejected", err |-> e, wait |-> 0]
  ELSE [next |-> "sleeping", err |-> e, wait |-> waitTime(e, delay)]

\* a catch block without the credential branch (the part_000 variant)
retryCatchNoAuth(e, ri, retries, delay) ==
  IF ri = retries THEN [next |-> "rejected", err |-> e, wait |-> 0]
  ELSE [next |-> "sleeping", err |-> e, wait |-> waitTime(e, delay)]

\* what the catch block of retry does with the error of attempt ri
retryCatch(e, ri, retries, delay) ==
  IF isAuthError(e) THEN [next |-> "rejected", err |-> CredentialError, wait |-> 0]
  ELSE IF ri = retries THEN [next |-> "rejected", err |-> e, wait |-> 0]
  ELSE [next |-> "sleeping", err |-> e, wait |-> waitTime(e, delay)]

\* fn rejected: the catch block, up to the throw or the start of the sleep
fn_Reject ==
  /\ rState = "inflight"
  /\ inFlight' = inFlight - 1
  /\ UNCHANGED nCalls
  /\ \E e \in FnErrors(rCaller) :
       LET c == retryCatch(e, rI, rRetries, currentDelay) IN
       /\ rErrs' = Append(rErrs, e)
       /\ rState' = c.next
       /\ IF c.next = "rejected"
          THEN /\ rOut' = [kind |-> "rejected", err |-> c.err]
               /\ rWaits' = rWaits
          ELSE /\ rOut' = rOut
               /\ rWaits' = Append(rWaits, c.wait)
  /\ UNCHANGED <<rCaller, rRetries, rDelay0, rI, currentDelay, rCalls, fnOut, called>>
  /\ UNCHANGED gcVars
  /\ UNCHANGED sideVars

\* a loop that sleeps and tries again without counting the attempt
retry_SleepDoneNoCount ==
  /\ rState = "sleeping"
  /\ currentDelay' = currentDelay
  /\ rI' = rI
  /\ rState' = "ready"
  /\ UNCHANGED <<rCaller, rRetries, rDelay0, rCalls, rWaits, rErrs, fnOut, rOut, called,
                 inFlight, nCalls>>
  /\ UNCHANGED gcVars
  /\ UNCHANGED sideVars

\* a backoff that doubles the time just waited, amplification included
retry_SleepDoneCarriesWait ==
  /\ rState = "sleeping"
  /\ currentDelay' = rWaits[Len(rWaits)] * 2
  /\ rI' = rI + 1
  /\ rState' = "ready"
  /\ UNCHANGED <<rCaller, rRetries, rDelay0, rCalls, rWaits, rErrs, fnOut, rOut, called,
                 inFlight, nCalls>>
  /\ UNCHANGED gcVars
  /\ UNCHANGED sideVars

\* the timer fired: currentDelay *= 2, next iteration
retry_SleepDone ==
  /\ rState = "sleeping"
  /\ currentDelay' = currentDelay * 2
  /\ rI' = rI + 1
  /\ rState' = "ready"
  /\ UNCHANGED <<rCaller, rRetries, rDelay0, rCalls, rWaits, rErrs, fnOut, rOut, called,
                 inFlight, nCalls>>
  /\ UNCHANGED gcVars
  /\ UNCHANGED sideVars

retryNext == retry_Call \/ fn_Resolve \/ fn_Reject \/ retry_SleepDone

\* -------------------------------------------------------- generateContent
\* JSON.parse(response.text || '{}') where it returns
JSONparse(resp) ==
  IF resp.text = "empty" THEN [kind |-> "object", imagePrompts |-> -1, own |-> {}]
  ELSE IF resp.text = "null" THEN [kind |-> "null", imagePrompts |-> -1, own |-> {}]
  ELSE [kind |-> "object", imagePrompts |-> resp.imagePrompts, own |-> resp.own]

\* JSON.parse throws a SyntaxError on a body that is not JSON
JSONparseThrows(resp) == resp.text = "invalid"

\* data.imagePrompts?.[i] || `Cinematic scene for ${data.title}`
imgPrompt(d, k) == IF d.imagePrompts > k THEN "specific" ELSE "generic"

\* `data:image/png;base64,${part.inlineData.data}` of the call made for a slot
DataUriOf(d, slot, prompt) == [kind |-> "data", data |-> d, slot |-> slot, prompt |-> prompt]

\* the data URI of a pipeline run, whose image responses carry "img"
DataUri(slot, prompt) == DataUriOf("img", slot, prompt)

\* config.aspectRatio === AspectRatio.VERTICAL ? '720/1280' : '1280/720'
dimensions(aspectRatio) == IF aspectRatio = "9:16" THEN "720/1280" ELSE "1280/720"

\* https://picsum.photos/seed/${seed}/${dimensions}
Placeholder(seed, aspectRatio) ==
  [kind |-> "placeholder", seed |-> seed, dims |-> dimensions(aspectRatio)]

IsPlaceholder(u) == u.kind = "placeholder"

\* seed ${i} of the quota branch, seed err${i} of the catch branch
SeedQuota(k) == <<"0", "1", "2", "3">>[k + 1]

SeedErr(k) == <<"err0", "err1", "err2", "err3">>[k + 1]

\* a progress curve with a larger step per image
imageProgressSteep(k) == 25 + (k + 1) * 20

\* onProgress(25 + (i + 1) * 15)
imageProgress(k) == 25 + (k + 1) * 15

\* the positions of the parts for which `if (part.inlineData)` holds
inlineParts(parts) == {j \in DOMAIN parts : parts[j].inlineData # "none"}

Lowest(S) == CHOOSE j \in S : \A k \in S : j <= k

\* a loop over the parts that keeps the last inline payload it meets
generateStudioImageLastPart(out, slot, prompt) ==
  IF out.kind = "resolved"
  THEN IF inlineParts(out.val.parts) # {}
       THEN LET S == inlineParts(out.val.parts)
                last == CHOOSE j \in S : \A k \in S : j >= k
            IN [kind |-> "resolved",
                uri |-> DataUriOf(out.val.parts[last].inlineData, slot, prompt)]
       ELSE [kind |-> "rejected", err |-> NoImageError]
  ELSE [kind |-> "rejected", err |-> out.err]

\* generateStudioImage after its retry() settled: the first part with
\* inlineData, or Error("Asset generation failed."), or retry's error
generateStudioImage(out, slot, prompt) ==
  IF out.kind = "resolved"
  THEN IF inlineParts(out.val.parts) # {}
       THEN [kind |-> "resolved",
             uri |-> DataUriOf(out.val.parts[Lowest(inlineParts(out.val.parts))].inlineData,
                               slot, prompt)]
       ELSE [kind |-> "rejected", err |-> NoImageError]
  ELSE [kind |-> "rejected", err |-> out.err]

\* a catch block that gives up on remote images after any failure
quotaAfterCatchAnyError(q, err) == TRUE

\* the flag after the catch block of the image loop
quotaAfterCatch(q, err) == IF messageIncludes429(err) THEN TRUE ELSE q

\* the dbService.ts variant of the loop bound: data.imagePrompts?.length || 0
loopBoundByPrompts(d) == IF d.imagePrompts > 0 THEN d.imagePrompts ELSE 0

\* for (let i = 0; i < 4; i++): the bound does not depend on the parsed data
loopBound(d) == NumImages

\* The image loop from its head at index k up to the next await: quota
\* iterations push their placeholder at once; the first iteration that is not
\* skipped starts sleep(2500); after the loop the thumbnail block starts
\* sleep(3000).
RECURSIVE imageLoop(_, _, _, _, _, _, _)
imageLoop(d, k, imgs, errs, q, prog, slp) ==
  IF k >= loopBound(d)
  THEN [pc |-> "ThumbSleep", i |-> k, images |-> imgs, imgErr |-> errs,
        progress |-> prog, sleeps |-> Append(slp, <<"thumb", ThumbGap>>)]
  ELSE IF q
  THEN imageLoop(d, k + 1, Append(imgs, Placeholder(SeedQuota(k), config.aspectRatio)), Append(errs, NoErr),
                 q, Append(prog, imageProgress(k)), slp)
  ELSE [pc |-> "ImageSleep", i |-> k, images |-> imgs, imgErr |-> errs,
        progress |-> prog, sleeps |-> Append(slp, <<ImageStage(k), ImageGap>>)]

\* the pipeline continues at the head of the image loop
enterImageLoop(d, k, imgs, errs, q, prog) ==
  LET n == imageLoop(d, k, imgs, errs, q, prog, sleeps) IN
  /\ pc' = n.pc
  /\ i' = n.i
  /\ images' = n.images
  /\ imgErr' = n.imgErr
  /\ progress' = n.progress
  /\ sleeps' = n.sleeps
  /\ isQuotaExhausted' = q

\* generateContent rejects
reject(err, at) ==
  /\ pc' = "Failed"
  /\ settled' = [kind |-> "rejected", err |-> err, at |-> at]

\* the speeds of the UI
Speeds == {"Slow", "Normal", "Fast"}

\* the multiplier of lines 54-56, in tenths: 2.5 unless the speed is Slow or Fast
multiplierTenths(cfg) ==
  IF cfg.speed = "Fast" THEN 30 ELSE IF cfg.speed = "Slow" THEN 20 ELSE 25

\* a word count that drops the fraction of the product
wordCountTruncated(cfg) ==
  ((cfg.durationMinutes * 60 + cfg.durationSeconds) * multiplierTenths(cfg)) \div 10

\* Math.round(totalSeconds * multiplier): the nearest integer, a half going up
wordCount(cfg) ==
  ((cfg.durationMinutes * 60 + cfg.durationSeconds) * multiplierTenths(cfg) + 5) \div 10

\* a check that only tests the key for falsiness
keyMissingFalsyOnly(k) == k \in {"unset", "empty"}

\* !apiKey || apiKey === "undefined"
keyMissing(k) == k \in {"unset", "empty"} \/ k = "undefined"

\* lines 43-51 and the call of retry() for the text request
GC_Start ==
  /\ pc = "Idle"
  /\ IF keyMissing(apiKey)
     THEN /\ reject(MissingKeyError, "credential")
          /\ UNCHANGED <<progress, targetWordCount, retryVars>>
     ELSE /\ progress' = Append(progress, 5)
          /\ targetWordCount' = wordCount(config)
          /\ pc' = "Text"
          /\ retryEnter("text", TextRetries, TextInitialDelay)
          /\ UNCHANGED settled
  /\ UNCHANGED <<sideVars, inFlight, nCalls,
                 apiKey, data, i, images, isQuotaExhausted, thumbnail, audio,
                 sleeps, called, imgErr, audioFail>>

\* a text stage that catches the failure and goes on with an empty object
GC_TextRejectedSwallowed ==
  /\ pc = "Text"
  /\ rState = "rejected"
  /\ retryLeave
  /\ data' = [kind |-> "object", imagePrompts |-> -1, own |-> {}]
  /\ enterImageLoop(data', 0, <<>>, <<>>, FALSE, Append(progress, 25))
  /\ UNCHANGED <<sideVars, targetWordCount, inFlight, nCalls,
                 apiKey, thumbnail, audio, called, audioFail, settled>>

\* the retried text call rejected: the await of line 83 throws
GC_TextRejected ==
  /\ pc = "Text"
  /\ rState = "rejected"
  /\ reject(rOut.err, "text")
  /\ retryLeave
  /\ UNCHANGED <<sideVars, targetWordCount, inFlight, nCalls,
                 apiKey, data, i, images, isQuotaExhausted, thumbnail, audio,
                 progress, sleeps, called, imgErr, audioFail>>

\* the retried text call resolved: lines 93-105
GC_TextResolved ==
  /\ pc = "Text"
  /\ rState = "resolved"
  /\ retryLeave
  /\ IF JSONparseThrows(rOut.val)
     THEN /\ reject(SyntaxError, "parse")
          /\ progress' = Append(progress, 25)
          /\ UNCHANGED <<data, i, images, isQuotaExhausted, sleeps, imgErr>>
     ELSE /\ data' = JSONparse(rOut.val)
          /\ enterImageLoop(JSONparse(rOut.val), 0, <<>>, <<>>, FALSE, Append(progress, 25))
          /\ UNCHANGED settled
  /\ UNCHANGED <<sideVars, targetWordCount, inFlight, nCalls,
                 apiKey, thumbnail, audio, called, audioFail>>

\* sleep(2500) is over: line 106, then generateStudioImage calls retry()
GC_ImageSleepDone ==
  /\ pc = "ImageSleep"
  /\ IF data.kind = "null"
     THEN \* data.imagePrompts throws inside the try: the catch block runs
          /\ enterImageLoop(data, i + 1, Append(images, Placeholder(SeedErr(i), config.aspectRatio)),
                            Append(imgErr, TypeError),
                            quotaAfterCatch(isQuotaExhausted, TypeError),
                            Append(progress, imageProgress(i)))
          /\ UNCHANGED retryVars
     ELSE /\ pc' = "ImageCall"
          /\ retryEnter(ImageStage(i), ImageRetries, ImageInitialDelay)
          /\ UNCHANGED <<i, images, imgErr, progress, sleeps, isQuotaExhausted>>
  /\ UNCHANGED <<sideVars, targetWordCount, inFlight, nCalls,
                 apiKey, data, thumbnail, audio, called, audioFail, settled>>

\* an image stage whose catch block rethrows the credential error
imageSettledRethrowsCredential ==
  LET r == generateStudioImage(rOut, i, imgPrompt(data, i)) IN
  /\ pc = "ImageCall"
  /\ retryLeave
  /\ IF r.kind = "resolved"
     THEN /\ enterImageLoop(data, i + 1, Append(images, r.uri), Append(imgErr, NoErr),
                            isQuotaExhausted, Append(progress, imageProgress(i)))
          /\ UNCHANGED settled
     ELSE IF r.err = CredentialError
     THEN /\ reject(r.err, "image")
          /\ UNCHANGED <<i, images, imgErr, progress, sleeps, isQuotaExhausted>>
     ELSE /\ enterImageLoop(data, i + 1, Append(images, Placeholder(SeedErr(i), config.aspectRatio)),
                            Append(imgErr, r.err),
                            quotaAfterCatch(isQuotaExhausted, r.err),
                            Append(progress, imageProgress(i)))
          /\ UNCHANGED settled
  /\ UNCHANGED <<sideVars, targetWordCount, inFlight, nCalls,
                 apiKey, data, thumbnail, audio, called, audioFail>>

\* generateStudioImage settled for slot i: lines 107-115
imageSettled ==
  LET r == generateStudioImage(rOut, i, imgPrompt(data, i)) IN
  /\ pc = "ImageCall"
  /\ retryLeave
  /\ IF r.kind = "resolved"
     THEN enterImageLoop(data, i + 1, Append(images, r.uri), Append(imgErr, NoErr),
                         isQuotaExhausted, Append(progress, imageProgress(i)))
     ELSE enterImageLoop(data, i + 1, Append(images, Placeholder(SeedErr(i), config.aspectRatio)),
                         Append(imgErr, r.err),
                         quotaAfterCatch(isQuotaExhausted, r.err),
                         Append(progress, imageProgress(i)))
  /\ UNCHANGED <<sideVars, targetWordCount, inFlight, nCalls,
                 apiKey, data, thumbnail, audio, called, audioFail, settled>>

GC_ImageResolved == rState = "resolved" /\ imageSettled

GC_ImageRejected == rState = "rejected" /\ imageSettled

\* the thumbnail is set: onProgress(90), then generateStudioAudio(data.script || "")
\* calls retry()
afterThumbnail(t, err) ==
  /\ thumbnail' = t
  /\ imgErr' = Append(imgErr, err)
  /\ progress' = Append(progress, 90)
  /\ pc' = "Audio"
  /\ retryEnter("audio", AudioRetries, AudioInitialDelay)
  /\ UNCHANGED <<sideVars, targetWordCount, inFlight, nCalls,
                 apiKey, data, i, images, isQuotaExhausted, audio, sleeps,
                 called, audioFail, settled>>

\* sleep(3000) is over: line 121, generateStudioImage calls retry()
GC_ThumbSleepDone ==
  /\ pc = "ThumbSleep"
  /\ IF data.kind = "null"
     THEN \* data.thumbnailPrompt throws inside the try; data.script throws outside
          /\ thumbnail' = Placeholder("thumb", config.aspectRatio)
          /\ imgErr' = Append(imgErr, TypeError)
          /\ progress' = Append(progress, 90)
          /\ reject(TypeError, "audio")
          /\ UNCHANGED retryVars
     ELSE /\ pc' = "ThumbCall"
          /\ retryEnter("thumb", ImageRetries, ImageInitialDelay)
          /\ UNCHANGED <<thumbnail, imgErr, progress, settled>>
  /\ UNCHANGED <<sideVars, targetWordCount, inFlight, nCalls,
                 apiKey, data, i, images, isQuotaExhausted, audio, sleeps,
                 called, audioFail>>

\* generateStudioImage settled for the thumbnail: lines 121-127
thumbSettled ==
  LET r == generateStudioImage(rOut, NumImages, "thumbnail") IN
  /\ pc = "ThumbCall"
  /\ IF r.kind = "resolved"
     THEN afterThumbnail(r.uri, NoErr)
     ELSE afterThumbnail(Placeholder("thumb", config.aspectRatio), r.err)

GC_ThumbResolved == rState = "resolved" /\ thumbSettled

GC_ThumbRejected == rState = "rejected" /\ thumbSettled

EmptyAudio == [kind |-> "empty"]

\* url: URL.createObjectURL(blob) for a WAV blob, '' for the empty artifact
audioUrl(blob) == IF blob.kind = "wav" THEN "blob:wav" ELSE ""

\* the value the parsed text response carries under a name
textValue(name) ==
  IF name \in {"contentType", "aspectRatio", "audioUrl"} THEN "fromText"
  ELSE IF name = "images" THEN <<[kind |-> "fromText"]>>
  ELSE [kind |-> "fromText"]

\* ...data, restricted to the names the result sets itself
spread(d) == [name \in d.own |-> textValue(name)]

\* the fields the return statement sets after the spread
ownFields(cfg, imgs, thumb, blob) ==
  [contentType |-> cfg.contentType, aspectRatio |-> cfg.aspectRatio,
   images |-> imgs, thumbnail |-> thumb, audioBlob |-> blob, audioUrl |-> audioUrl(blob)]

\* a return statement that spreads data last
assembleSpreadLast(d, cfg, imgs, thumb, blob) ==
  spread(d) @@ ownFields(cfg, imgs, thumb, blob)

\* return { ...data, contentType, aspectRatio, images, thumbnail, audioBlob, audioUrl }
assemble(d, cfg, imgs, thumb, blob) ==
  ownFields(cfg, imgs, thumb, blob) @@ spread(d)

\* generateStudioAudio after its retry() settled: a WAV blob for a payload
\* atob decodes, the empty artifact otherwise
generateStudioAudio(out) ==
  IF out.kind = "rejected" THEN [artifact |-> EmptyAudio, fail |-> "retry rejected"]
  ELSE IF out.val.payload = "none" THEN [artifact |-> EmptyAudio, fail |-> "no payload"]
  ELSE IF out.val.payload = "undecodable" THEN [artifact |-> EmptyAudio, fail |-> "atob threw"]
  ELSE [artifact |-> [kind |-> "wav"], fail |-> "no"]

\* an audio stage where the decode failure of atob is not caught
audioSettledDecodeThrows ==
  LET a == generateStudioAudio(rOut) IN
  /\ pc = "Audio"
  /\ retryLeave
  /\ IF a.fail = "atob threw"
     THEN /\ reject(TypeError, "audio")
          /\ UNCHANGED <<audio, audioFail, progress>>
     ELSE /\ audio' = a.artifact
          /\ audioFail' = a.fail
          /\ progress' = Append(progress, 100)
          /\ pc' = "Complete"
          /\ settled' = [kind |-> "resolved"]
                           @@ assemble(data, config, images, thumbnail, a.artifact)
  /\ UNCHANGED <<sideVars, targetWordCount, inFlight, nCalls,
                 apiKey, data, i, images, isQuotaExhausted, thumbnail, sleeps,
                 called, imgErr>>

\* generateStudioAudio settled: onProgress(100) and the result
audioSettled ==
  LET a == generateStudioAudio(rOut) IN
  /\ pc = "Audio"
  /\ audio' = a.artifact
  /\ audioFail' = a.fail
  /\ progress' = Append(progress, 100)
  /\ pc' = "Complete"
  /\ settled' = [kind |-> "resolved"]
                   @@ assemble(data, config, images, thumbnail, a.artifact)
  /\ retryLeave
  /\ UNCHANGED <<sideVars, targetWordCount, inFlight, nCalls,
                 apiKey, data, i, images, isQuotaExhausted, thumbnail, sleeps,
                 called, imgErr>>

GC_AudioResolved == rState = "resolved" /\ audioSettled

GC_AudioRejected == rState = "rejected" /\ audioSettled

\* process.env.API_KEY: a usable key, undefined, "" (what vite.config.ts
\* substitutes for an unset variable) or the string "undefined"
ApiKeys == {"set", "unset", "empty", "undefined"}

\* no speech request built, nothing decoded or wrapped yet
audioIdle ==
  /\ audioParams = NoValue
  /\ decoded = <<>>
  /\ pcmData = <<>>
  /\ hdrArgs = <<0, 0>>
  /\ wavHeader = <<>>
  /\ combined = <<>>

\* an empty database nobody has written to or read from
dbIdle ==
  /\ store = {}
  /\ lastWrite = NoValue
  /\ loaded = NoValue

\* no handler of App is running
handlersIdle ==
  /\ hg = [pc |-> "idle", history |-> <<>>, out |-> NoValue, saved |-> FALSE]
  /\ rg = [clip |-> [pc |-> "idle", history |-> <<>>, result |-> NoValue],
           thumbnail |-> [pc |-> "idle", history |-> <<>>, result |-> NoValue]]
  /\ ch = [pc |-> "idle", before |-> 0]
  /\ alerts = <<>>
  /\ dbCalls = <<>>
  /\ started = [runs |-> 0, regens |-> 0, thumbs |-> 0, clears |-> 0]

\* App as it is constructed: useState([]) and useState(null)
appIdle ==
  /\ history = <<>>
  /\ result = NoValue
  /\ handlersIdle
  /\ clock = 1

\* no harness runs
harnessIdle ==
  /\ phRun = <<>>
  /\ phUri = <<>>
  /\ imgOut = NoValue
  /\ dbIdle
  /\ appIdle

\* the part of App's state the pipeline is run from
uiIdle ==
  /\ uiPrompt = "idea"
  /\ loading = TRUE
  /\ runConfig = config

gcStart ==
  /\ pc = "Idle"
  /\ apiKey \in ApiKeys
  /\ targetWordCount = 0
  /\ data = NoValue
  /\ i = 0
  /\ images = <<>>
  /\ isQuotaExhausted = FALSE
  /\ thumbnail = NoValue
  /\ audio = NoValue
  /\ progress = <<>>
  /\ sleeps = <<>>
  /\ called = {}
  /\ imgErr = <<>>
  /\ audioFail = "no"
  /\ settled = NoValue
  /\ config = DefaultConfig
  /\ audioIdle
  /\ uiIdle
  /\ harnessIdle
  /\ rState = "off"
  /\ rCaller = "nobody"
  /\ rRetries = 0
  /\ rDelay0 = 0
  /\ rI = 0
  /\ currentDelay = 0
  /\ rCalls = 0
  /\ rWaits = <<>>
  /\ rErrs = <<>>
  /\ fnOut = NoValue
  /\ rOut = NoValue
  /\ inFlight = 0

Init == gcStart /\ nCalls = -1

Next ==
  \/ GC_Start
  \/ retry_Call
  \/ fn_Resolve
  \/ fn_Reject
  \/ retry_SleepDone
  \/ GC_TextRejected
  \/ GC_TextResolved
  \/ GC_ImageSleepDone
  \/ GC_ImageResolved
  \/ GC_ImageRejected
  \/ GC_ThumbSleepDone
  \/ GC_ThumbResolved
  \/ GC_ThumbRejected
  \/ GC_AudioResolved
  \/ GC_AudioRejected

Spec == Init /\ [][Next]_vars

\* Every await of the pipeline settles: a pending remote call resolves or
\* rejects, a pending timer fires, and the code after the await runs.
SpecLive == Spec /\ WF_vars(Next)

\* the same runs with the remote calls counted
InitCalls == gcStart /\ nCalls = 0

SpecCalls == InitCalls /\ [][Next]_vars

\* ----------------------------------------------- retry on its own (harness)
gcFresh ==
  /\ apiKey = "set"
  /\ targetWordCount = 0
  /\ data = NoValue
  /\ i = 0
  /\ images = <<>>
  /\ isQuotaExhausted = FALSE
  /\ thumbnail = NoValue
  /\ audio = NoValue
  /\ progress = <<>>
  /\ sleeps = <<>>
  /\ called = {}
  /\ imgErr = <<>>
  /\ audioFail = "no"
  /\ settled = NoValue

gcIdle ==
  /\ gcFresh
  /\ config = DefaultConfig
  /\ audioIdle
  /\ uiIdle
  /\ harnessIdle

\* no retry() is running
retryOff ==
  /\ rState = "off"
  /\ rCaller = "nobody"
  /\ rRetries = 0
  /\ rDelay0 = 0
  /\ rI = 0
  /\ currentDelay = 0
  /\ rCalls = 0
  /\ rWaits = <<>>
  /\ rErrs = <<>>
  /\ fnOut = NoValue
  /\ rOut = NoValue

InitRetry ==
  /\ pc = "Harness"
  /\ gcIdle
  /\ rState = "ready"
  /\ rCaller = "harness"
  /\ rRetries \in 0..MaxRetries
  /\ rDelay0 \in InitialDelays
  /\ rI = 0
  /\ currentDelay = rDelay0
  /\ rCalls = 0
  /\ rWaits = <<>>
  /\ rErrs = <<>>
  /\ fnOut = NoValue
  /\ rOut = NoValue
  /\ inFlight = 0
  /\ nCalls = -1

SpecRetry == InitRetry /\ [][retryNext]_vars

\* ------------------------------------- generateContent up to the text call
\* the configs generateContent is called with: every speed, durations with
\* even and odd totals
WordConfigs ==
  {[DefaultConfig EXCEPT !.speed = sp, !.durationMinutes = m, !.durationSeconds = x] :
     sp \in Speeds, m \in 0..MaxMinutes, x \in {0, 1, 5, 29, 30, 31, 59, 60}}

InitWords ==
  /\ pc = "Idle"
  /\ apiKey \in ApiKeys
  /\ targetWordCount = 0
  /\ data = NoValue
  /\ i = 0
  /\ images = <<>>
  /\ isQuotaExhausted = FALSE
  /\ thumbnail = NoValue
  /\ audio = NoValue
  /\ progress = <<>>
  /\ sleeps = <<>>
  /\ called = {}
  /\ imgErr = <<>>
  /\ audioFail = "no"
  /\ settled = NoValue
  /\ config \in WordConfigs
  /\ audioIdle
  /\ uiIdle
  /\ harnessIdle
  /\ retryOff
  /\ inFlight = 0
  /\ nCalls = -1

SpecWords == InitWords /\ [][GC_Start]_vars

\* ------------------------- the audio stage and the result, from any inputs
\* the names the return statement sets after spreading data
ResultNames == {"contentType", "aspectRatio", "images", "thumbnail", "audioBlob", "audioUrl"}

\* the state afterThumbnail leaves, for any config and any text response
InitAssemble ==
  /\ pc = "Audio"
  /\ apiKey = "set"
  /\ targetWordCount = 75
  /\ data \in {[kind |-> "object", imagePrompts |-> NumImages, own |-> o] : o \in SUBSET ResultNames}
  /\ config \in {[DefaultConfig EXCEPT !.contentType = c, !.aspectRatio = a] :
                   c \in ContentTypes, a \in AspectRatios}
  /\ i = NumImages
  /\ images \in {[k \in 1..NumImages |-> DataUri(k - 1, "specific")],
                   [k \in 1..NumImages |-> Placeholder(SeedErr(k - 1), config.aspectRatio)]}
  /\ imgErr = [k \in 1..(NumImages + 1) |->
                 IF k <= NumImages /\ IsPlaceholder(images[k]) THEN NetError ELSE NoErr]
  /\ isQuotaExhausted = FALSE
  /\ thumbnail = DataUri(NumImages, "thumbnail")
  /\ audio = NoValue
  /\ audioFail = "no"
  /\ progress = <<5, 25, 40, 55, 70, 85, 90>>
  /\ sleeps = [k \in 1..(NumImages + 1) |->
                 IF k <= NumImages THEN <<ImageStage(k - 1), ImageGap>> ELSE <<"thumb", ThumbGap>>]
  /\ called = {"text", "image0", "image1", "image2", "image3", "thumb"}
  /\ settled = NoValue
  /\ audioIdle
  /\ uiIdle
  /\ harnessIdle
  /\ rState = "ready"
  /\ rCaller = "audio"
  /\ rRetries = AudioRetries
  /\ rDelay0 = AudioInitialDelay
  /\ rI = 0
  /\ currentDelay = AudioInitialDelay
  /\ rCalls = 0
  /\ rWaits = <<>>
  /\ rErrs = <<>>
  /\ fnOut = NoValue
  /\ rOut = NoValue
  /\ inFlight = 0
  /\ nCalls = -1

NextAssemble ==
  \/ retry_Call
  \/ fn_Resolve
  \/ fn_Reject
  \/ retry_SleepDone
  \/ GC_AudioResolved
  \/ GC_AudioRejected

SpecAssemble == InitAssemble /\ [][NextAssemble]_vars

\* ------------------------------------ the audio adapter at the byte level
\* VOICES of constants.ts: id and geminiVoice
VOICES ==
  <<[id |-> "v1", geminiVoice |-> "Puck"],
    [id |-> "v2", geminiVoice |-> "Charon"],
    [id |-> "v3", geminiVoice |-> "Fenrir"],
    [id |-> "v4", geminiVoice |-> "Kore"],
    [id |-> "v5", geminiVoice |-> "Zephyr"],
    [id |-> "v6", geminiVoice |-> "Aoede"]>>

\* VOICES.find(v => v.id === config.voiceId) || VOICES[0]
selectedVoice(cfg) ==
  LET hits == {k \in 1..Len(VOICES) : VOICES[k].id = cfg.voiceId} IN
  IF hits = {} THEN VOICES[1]
  ELSE VOICES[CHOOSE k \in hits : \A j \in hits : k <= j]

\* audioParams.config.speechConfig as generateStudioAudio builds it
speechConfig(cfg) ==
  [kind |-> "voiceConfig", voices |-> <<selectedVoice(cfg).geminiVoice>>]

\* DataView.setUint16(offset, v, true)
LE16(v) == <<v % 256, (v \div 256) % 256>>

\* a number of the header arithmetic as two 16-bit halves, hi * 65536 + lo;
\* hi exceeds 65535 when the number does not fit 32 bits
wide(v) == [hi |-> v \div 65536, lo |-> v % 65536]

\* n + w for a small n, and w * 2, exactly
widePlus(n, w) == [hi |-> w.hi + (w.lo + n) \div 65536, lo |-> (w.lo + n) % 65536]

wideTwice(w) == [hi |-> 2 * w.hi + (2 * w.lo) \div 65536, lo |-> (2 * w.lo) % 65536]

\* DataView.setUint32(offset, w, true): the value modulo 2^32, low byte first
LE32(w) == <<w.lo % 256, w.lo \div 256, w.hi % 256, (w.hi \div 256) % 256>>

\* DataView.setUint32(offset, v, false)
BE32(v) == <<(v \div 16777216) % 256, (v \div 65536) % 256, (v \div 256) % 256, v % 256>>

\* a header whose chunk size counts the whole file
createWavHeaderWholeFile(dataLength, sampleRate) ==
  BE32(1380533830) \o LE32(widePlus(44, dataLength)) \o BE32(1463899717)
    \o BE32(1718449184)
    \o LE16(16) \o <<0, 0>> \o LE16(1) \o LE16(1) \o LE32(sampleRate)
    \o LE32(wideTwice(sampleRate)) \o LE16(2) \o LE16(16) \o BE32(1684108385) \o LE32(dataLength)

\* createWavHeader: the 44 bytes of the ArrayBuffer; bytes 18 and 19 are
\* never written and stay 0. Both arguments are given in halves.
createWavHeader(dataLength, sampleRate) ==
  BE32(1380533830) \o LE32(widePlus(36, dataLength)) \o BE32(1463899717)
    \o BE32(1718449184)
    \o LE16(16) \o <<0, 0>> \o LE16(1) \o LE16(1) \o LE32(sampleRate)
    \o LE32(wideTwice(sampleRate)) \o LE16(2) \o LE16(16) \o BE32(1684108385) \o LE32(dataLength)

\* the 16-bit samples speech payloads are built from
SampleValues == {0, 1, 3, -3, 1000, 32767, -32768}

\* a signed 16-bit sample as its two little-endian bytes
sampleBytes(x) == LE16(IF x < 0 THEN x + 65536 ELSE x)

RECURSIVE samplesToBytes(_)
samplesToBytes(ss) ==
  IF ss = <<>> THEN <<>> ELSE sampleBytes(Head(ss)) \o samplesToBytes(Tail(ss))

\* what atob can decode to: whole samples, or whole samples and one more byte
PCMs ==
  LET SampleSeqs == UNION {[1..n -> SampleValues] : n \in 0..MaxSamples} IN
  {samplesToBytes(ss) : ss \in SampleSeqs}
    \cup {Append(samplesToBytes(ss), 7) : ss \in SampleSeqs}

\* the voice ids a stored config carries: the six of VOICES and an unknown one
VoiceIds == {"v1", "v2", "v3", "v4", "v5", "v6", "v0"}

\* the configs the audio adapter is run with
AudioConfigs ==
  {[DefaultConfig EXCEPT !.contentType = c, !.voiceId = v, !.volume = f] :
     c \in ContentTypes, v \in VoiceIds, f \in {Factor(1, 1), Factor(1, 2), Factor(0, 1)}}

\* the dataLength and sampleRate values createWavHeader is applied to
HeaderLengths == {0, 1, 2, 255, 256, 257, 65535, 65536, 16777215, 16777216, 1073741824}

HeaderRates == {0, 8000, 24000, 44100, 48000}

\* generateStudioAudio up to the await of retry(): lines 177-197
SA_Request ==
  /\ pc = "AudioBuild"
  /\ audioParams' = [speechConfig |-> speechConfig(config)]
  /\ retryEnter("audio", AudioRetries, AudioInitialDelay)
  /\ pc' = "AudioCall"
  /\ UNCHANGED <<harnessVars, uiPrompt, loading, runConfig, config, decoded, pcmData, hdrArgs, wavHeader, combined, inFlight, nCalls, apiKey, targetWordCount,
                 data, i, images, isQuotaExhausted, thumbnail, audio, progress, sleeps,
                 called, imgErr, audioFail, settled>>

\* generateStudioAudio after retry() settled: lines 198-215
SA_Settled ==
  LET a == generateStudioAudio(rOut) IN
  /\ pc = "AudioCall"
  /\ rState \in {"resolved", "rejected"}
  /\ audio' = a.artifact
  /\ audioFail' = a.fail
  /\ IF a.fail = "no"
     THEN \E bytes \in PCMs :
            /\ decoded' = bytes
            /\ pcmData' = bytes
            /\ hdrArgs' = <<Len(bytes), WavSampleRate>>
            /\ wavHeader' = createWavHeader(wide(Len(bytes)), wide(WavSampleRate))
            /\ combined' = createWavHeader(wide(Len(bytes)), wide(WavSampleRate)) \o bytes
     ELSE UNCHANGED <<decoded, pcmData, hdrArgs, wavHeader, combined>>
  /\ retryLeave
  /\ pc' = "AudioDone"
  /\ UNCHANGED <<harnessVars, uiPrompt, loading, runConfig, config, audioParams, inFlight, nCalls, apiKey, targetWordCount, data, i, images, isQuotaExhausted,
                 thumbnail, progress, sleeps, called, imgErr, settled>>

\* createWavHeader applied to the arguments drawn
createWavHeader_Apply ==
  /\ pc = "WavHeader"
  /\ wavHeader' = createWavHeader(wide(hdrArgs[1]), wide(hdrArgs[2]))
  /\ pc' = "WavHeaderDone"
  /\ UNCHANGED <<harnessVars, uiPrompt, loading, runConfig, config, audioParams, decoded, pcmData, hdrArgs, combined, inFlight, nCalls, called>>
  /\ UNCHANGED <<apiKey, targetWordCount, data, i, images, isQuotaExhausted, thumbnail, audio, progress,
                 sleeps, imgErr, audioFail, settled>>
  /\ UNCHANGED retryVars

\* the adapter is called with any config, or createWavHeader with any arguments
InitAudio ==
  /\ gcFresh
  /\ retryOff
  /\ inFlight = 0
  /\ nCalls = -1
  /\ audioParams = NoValue
  /\ decoded = <<>>
  /\ pcmData = <<>>
  /\ wavHeader = <<>>
  /\ combined = <<>>
  /\ \/ /\ pc = "AudioBuild"
        /\ config \in AudioConfigs
        /\ hdrArgs = <<0, 0>>
     \/ /\ pc = "WavHeader"
        /\ config = DefaultConfig
        /\ hdrArgs \in HeaderLengths \X HeaderRates
  /\ uiIdle
  /\ harnessIdle

NextAudio ==
  \/ SA_Request
  \/ retry_Call
  \/ fn_Resolve
  \/ fn_Reject
  \/ retry_SleepDone
  \/ SA_Settled
  \/ createWavHeader_Apply

SpecAudio == InitAudio /\ [][NextAudio]_vars

\* the halves of the arguments createWavHeader is applied to over the whole
\* range below 2^32
WideNumbers ==
  {[hi |-> h, lo |-> l] : h \in {0, 1, 32767, 32768, 65535},
                         l \in {0, 1, 24000, 32768, 65499, 65500, 65535}}

\* createWavHeader applied to arguments of the whole range
createWavHeader_ApplyWide ==
  /\ pc = "WavHeaderWide"
  /\ wavHeader' = createWavHeader(hdrArgs[1], hdrArgs[2])
  /\ pc' = "WavHeaderWideDone"
  /\ UNCHANGED <<harnessVars, uiPrompt, loading, runConfig, config, audioParams, decoded,
                 pcmData, hdrArgs, combined, inFlight, nCalls, called>>
  /\ UNCHANGED <<apiKey, targetWordCount, data, i, images, isQuotaExhausted, thumbnail,
                 audio, progress, sleeps, imgErr, audioFail, settled>>
  /\ UNCHANGED retryVars

InitWav ==
  /\ pc = "WavHeaderWide"
  /\ gcFresh
  /\ retryOff
  /\ inFlight = 0
  /\ nCalls = -1
  /\ config = DefaultConfig
  /\ audioParams = NoValue
  /\ decoded = <<>>
  /\ pcmData = <<>>
  /\ wavHeader = <<>>
  /\ combined = <<>>
  /\ hdrArgs \in WideNumbers \X WideNumbers
  /\ uiIdle
  /\ harnessIdle

SpecWav == InitWav /\ [][createWavHeader_ApplyWide]_vars

\* ----------------------- the gain stage of the variant src/unnamed/part_000
\* the volume factors a stored config carries
Volumes ==
  {Factor(1, 1), Factor(0, 1), Factor(1, 2), Factor(3, 2), Factor(2, 1), Factor(-1, 1),
   Factor(1000, 1)}

\* const volumeFactor = config.volume || 1.0
volumeFactor(vol) == IF vol.num = 0 THEN Factor(1, 1) ELSE vol

\* dataInt16[k] of new Int16Array(pcmData.buffer), k from 1
int16At(bytes, k) ==
  LET u == bytes[2 * k - 1] + 256 * bytes[2 * k] IN
  IF u >= 32768 THEN u - 65536 ELSE u

\* the store dataInt16[i] = Math.max(-32768, Math.min(32767, x * f)): the
\* clamped product, its fraction dropped
scaledSample(x, f) ==
  LET p == x * f.num IN
  IF p >= 32767 * f.den THEN 32767
  ELSE IF p <= (-32768) * f.den THEN -32768
  ELSE IF p >= 0 THEN p \div f.den
  ELSE -((-p) \div f.den)

\* lines 226-233 of part_000: the bytes after the gain loop; new Int16Array
\* over a buffer of odd length throws a RangeError
gainStage(bytes, vol) ==
  LET f == volumeFactor(vol) IN
  IF f.num = f.den THEN [threw |-> FALSE, bytes |-> bytes]
  ELSE IF Len(bytes) % 2 = 1 THEN [threw |-> TRUE, bytes |-> bytes]
  ELSE [threw |-> FALSE,
        bytes |-> samplesToBytes([k \in 1..(Len(bytes) \div 2) |->
                                    scaledSample(int16At(bytes, k), f)])]

\* lines 226-244 of part_000: gain, header, container; the catch block
\* turns the RangeError into the empty artifact
gain_Apply ==
  LET g == gainStage(pcmData, config.volume) IN
  /\ pc = "Gain"
  /\ pc' = "GainDone"
  /\ IF g.threw
     THEN /\ audio' = EmptyAudio
          /\ audioFail' = "gain threw"
          /\ UNCHANGED <<pcmData, hdrArgs, wavHeader, combined>>
     ELSE /\ audio' = [kind |-> "wav"]
          /\ audioFail' = "no"
          /\ pcmData' = g.bytes
          /\ hdrArgs' = <<Len(g.bytes), WavSampleRate>>
          /\ wavHeader' = createWavHeader(wide(Len(g.bytes)), wide(WavSampleRate))
          /\ combined' = createWavHeader(wide(Len(g.bytes)), wide(WavSampleRate)) \o g.bytes
  /\ UNCHANGED <<harnessVars, uiPrompt, loading, runConfig, config, audioParams, decoded, inFlight, nCalls, called>>
  /\ UNCHANGED <<apiKey, targetWordCount, data, i, images, isQuotaExhausted, thumbnail, progress, sleeps,
                 imgErr, settled>>
  /\ UNCHANGED retryVars

\* the payload is decoded and the gain stage is about to run
InitGain ==
  /\ pc = "Gain"
  /\ gcFresh
  /\ retryOff
  /\ inFlight = 0
  /\ nCalls = -1
  /\ config \in {[DefaultConfig EXCEPT !.volume = f] : f \in Volumes}
  /\ audioParams = NoValue
  /\ decoded \in PCMs
  /\ pcmData = decoded
  /\ hdrArgs = <<0, 0>>
  /\ wavHeader = <<>>
  /\ combined = <<>>
  /\ uiIdle
  /\ harnessIdle

SpecGain == InitGain /\ [][gain_Apply]_vars

\* ------------------------------------------- the duration controls of App
\* the settings localStorage can hold for the format and the duration
StoredConfigs ==
  {[DefaultConfig EXCEPT !.contentType = c, !.durationMinutes = m, !.durationSeconds = x] :
     c \in ContentTypes, m \in {-1, 0, 1, 4, 5, 6}, x \in {-10, 0, 4, 30, 60, 61, 90, 400}}

\* what the user types into a number field: digits, or text parseInt rejects
TypedValues ==
  {[digits |-> FALSE, n |-> 0]}
    \cup {[digits |-> TRUE, n |-> k] : k \in {-5, 0, 1, 4, 5, 6, 30, 59, 60, 61, 400}}

\* parseInt(val) || 0
parseIntOr0(val) == IF val.digits THEN val.n ELSE 0

\* Math.max(lo, Math.min(hi, x))
clampTo(lo, hi, x) ==
  LET m == IF x < hi THEN x ELSE hi IN
  IF m > lo THEN m ELSE lo

\* (durationMinutes * 60) + durationSeconds
totalSecs(cfg) == cfg.durationMinutes * 60 + cfg.durationSeconds

\* a duration effect without the short-form branch
clampEffectLongOnly(cfg) ==
  IF cfg.contentType # "Reel" /\ totalSecs(cfg) > 300
  THEN [cfg EXCEPT !.durationMinutes = 5, !.durationSeconds = 0]
  ELSE cfg

\* one run of the duration effect: lines 55-68
clampEffect(cfg) ==
  IF cfg.contentType = "Reel"
  THEN IF cfg.durationMinutes > 0
       THEN [cfg EXCEPT !.durationMinutes = 0, !.durationSeconds = 60]
       ELSE IF cfg.durationSeconds > 60
       THEN [cfg EXCEPT !.durationSeconds = 60]
       ELSE cfg
  ELSE IF totalSecs(cfg) > 300
       THEN [cfg EXCEPT !.durationMinutes = 5, !.durationSeconds = 0]
       ELSE cfg

\* the effect runs after every render that changed the format or the
\* duration, its own setConfig included, until it changes nothing
RECURSIVE afterEffects(_)
afterEffects(cfg) ==
  IF clampEffect(cfg) = cfg THEN cfg ELSE afterEffects(clampEffect(cfg))

\* what a handler of App leaves alone
uiFrame ==
  /\ UNCHANGED harnessVars
  /\ UNCHANGED <<audioParams, decoded, pcmData, hdrArgs, wavHeader, combined, inFlight, nCalls, called>>
  /\ UNCHANGED <<apiKey, targetWordCount, data, i, images, isQuotaExhausted, thumbnail, audio, progress,
                 sleeps, imgErr, audioFail, settled>>
  /\ UNCHANGED retryVars

\* the first render and the effects after it
App_Mount ==
  /\ pc = "Mount"
  /\ pc' = "Ready"
  /\ config' = afterEffects(config)
  /\ UNCHANGED <<uiPrompt, loading, runConfig>>
  /\ uiFrame

handleContentTypeChange ==
  /\ pc = "Ready"
  /\ \E type \in ContentTypes :
       config' = afterEffects([config EXCEPT
                    !.contentType = type,
                    !.aspectRatio = IF type = "Reel" THEN "9:16" ELSE "16:9"])
  /\ UNCHANGED <<pc, uiPrompt, loading, runConfig>>
  /\ uiFrame

\* the minutes field is disabled while the format is Reel
handleMinutesChange ==
  /\ pc = "Ready"
  /\ config.contentType # "Reel"
  /\ \E val \in TypedValues :
       LET mins == clampTo(0, 5, parseIntOr0(val)) IN
       config' = afterEffects([config EXCEPT
                    !.durationMinutes = mins,
                    !.durationSeconds = IF mins = 5 THEN 0 ELSE config.durationSeconds])
  /\ UNCHANGED <<pc, uiPrompt, loading, runConfig>>
  /\ uiFrame

handleSecondsChange ==
  /\ pc = "Ready"
  /\ \E val \in TypedValues :
       LET maxSecs == IF config.contentType = "Reel" THEN 60
                      ELSE IF config.durationMinutes = 5 THEN 0 ELSE 59
           secs == clampTo(0, maxSecs, parseIntOr0(val))
       IN config' = afterEffects([config EXCEPT !.durationSeconds = secs])
  /\ UNCHANGED <<pc, uiPrompt, loading, runConfig>>
  /\ uiFrame

\* the textarea: setPrompt(e.target.value)
setPrompt ==
  /\ pc = "Ready"
  /\ \E text \in {"", " ", "idea"} : uiPrompt' = text
  /\ UNCHANGED <<pc, config, loading, runConfig>>
  /\ uiFrame

\* prompt.trim()
trim(text) == IF text = " " THEN "" ELSE text

\* the alerts one session is followed for
MaxAlerts == 1

\* a handleGenerate that does not look at the duration
handleGenerate_ProceedsAnyDuration(text, cfg) == trim(text) # ""

\* the two early returns of handleGenerate: a blank prompt, a total duration
\* below 5 seconds
handleGenerate_Proceeds(text, cfg) == trim(text) # "" /\ totalSecs(cfg) >= 5

\* handleGenerate up to the call of generateContent, or up to its early
\* return, which shows an alert when the duration is the cause; the button is
\* disabled while loading
handleGenerate ==
  /\ pc = "Ready"
  /\ ~loading
  /\ IF handleGenerate_Proceeds(uiPrompt, config)
     THEN /\ loading' = TRUE
          /\ runConfig' = config
          /\ UNCHANGED alerts
     ELSE /\ Len(alerts) < MaxAlerts
          /\ alerts' = IF trim(uiPrompt) # "" THEN Append(alerts, [cause |-> "duration"])
                        ELSE alerts
          /\ UNCHANGED <<loading, runConfig>>
  /\ UNCHANGED <<pc, config, uiPrompt>>
  /\ UNCHANGED <<phRun, phUri, imgOut, dbVars, history, result, hg, rg, ch, dbCalls,
                 clock, started>>
  /\ UNCHANGED <<audioParams, decoded, pcmData, hdrArgs, wavHeader, combined, inFlight,
                 nCalls, called>>
  /\ UNCHANGED <<apiKey, targetWordCount, data, i, images, isQuotaExhausted, thumbnail,
                 audio, progress, sleeps, imgErr, audioFail, settled>>
  /\ UNCHANGED retryVars

\* generateContent settled: the finally block
handleGenerate_Finally ==
  /\ pc = "Ready"
  /\ loading
  /\ loading' = FALSE
  /\ UNCHANGED <<pc, config, uiPrompt, runConfig>>
  /\ uiFrame

\* App is constructed with any stored settings
InitConfig ==
  /\ pc = "Mount"
  /\ gcFresh
  /\ retryOff
  /\ inFlight = 0
  /\ nCalls = -1
  /\ audioParams = NoValue
  /\ decoded = <<>>
  /\ pcmData = <<>>
  /\ hdrArgs = <<0, 0>>
  /\ wavHeader = <<>>
  /\ combined = <<>>
  /\ config \in StoredConfigs
  /\ uiPrompt = ""
  /\ loading = FALSE
  /\ runConfig = DefaultConfig
  /\ harnessIdle

NextConfig ==
  \/ App_Mount
  \/ handleContentTypeChange
  \/ handleMinutesChange
  \/ handleSecondsChange
  \/ setPrompt
  \/ handleGenerate
  \/ handleGenerate_Finally

SpecConfig == InitConfig /\ [][NextConfig]_vars

\* ------------------------------------- the placeholders of two runs, side by side
\* everything but the harness state, which the harnesses below leave alone
studioVars == <<gcVars, retryVars, inFlight, nCalls, called, config, audioVars,
                uiPrompt, loading, runConfig>>

\* no pipeline, no retry() and no audio adapter is running
studioIdle ==
  /\ gcFresh
  /\ retryOff
  /\ inFlight = 0
  /\ nCalls = -1
  /\ config = DefaultConfig
  /\ audioIdle
  /\ uiIdle

\* the two branches of the loop that push a placeholder
Reasons == {"quota", "failure"}

\* the quota branch is taken only after an earlier slot has set isQuotaExhausted
PlaceholderUses ==
  {u \in [slot : 0..(NumImages - 1), aspectRatio : AspectRatios, reason : Reasons] :
     u.reason = "quota" => u.slot > 0}

\* what the loop pushes for slot i in either branch
placeholderFor(use) ==
  IF use.reason = "quota"
    THEN Placeholder(SeedQuota(use.slot), use.aspectRatio)
    ELSE Placeholder(SeedErr(use.slot), use.aspectRatio)

\* run r pushes its placeholder
substitute(r) ==
  /\ pc = "Placeholders"
  /\ phUri[r] = NoValue
  /\ phUri' = [phUri EXCEPT ![r] = placeholderFor(phRun[r])]
  /\ UNCHANGED <<phRun, imgOut, dbVars, appVars, studioVars>>

InitPlaceholder ==
  /\ pc = "Placeholders"
  /\ studioIdle
  /\ phRun \in [1..2 -> PlaceholderUses]
  /\ phUri = <<NoValue, NoValue>>
  /\ imgOut = NoValue
  /\ dbIdle
  /\ appIdle

SpecPlaceholder == InitPlaceholder /\ [][\E r \in 1..2 : substitute(r)]_vars

\* ------------------------------------------------ generateStudioImage by itself
\* where generateStudioImage stands once it has called retry(fn, 2, 4000)
InitImage ==
  /\ pc = "StudioImage"
  /\ gcFresh
  /\ config = DefaultConfig
  /\ audioIdle
  /\ uiIdle
  /\ rState = "ready"
  /\ rCaller = "studioImage"
  /\ rRetries = ImageRetries
  /\ rDelay0 = ImageInitialDelay
  /\ rI = 0
  /\ currentDelay = ImageInitialDelay
  /\ rCalls = 0
  /\ rWaits = <<>>
  /\ rErrs = <<>>
  /\ fnOut = NoValue
  /\ rOut = NoValue
  /\ inFlight = 0
  /\ nCalls = -1
  /\ phRun = <<>>
  /\ phUri = <<>>
  /\ imgOut = NoValue
  /\ dbIdle
  /\ appIdle

\* retry() settled: the loop over the parts, the throw, or retry's error
SI_Settled ==
  /\ pc = "StudioImage"
  /\ rState \in {"resolved", "rejected"}
  /\ imgOut' = generateStudioImage(rOut, 0, "specific")
  /\ pc' = "StudioImageDone"
  /\ UNCHANGED <<apiKey, targetWordCount, data, i, images, isQuotaExhausted, thumbnail,
                 audio, progress, sleeps, imgErr, audioFail, settled>>
  /\ UNCHANGED <<retryVars, inFlight, nCalls, called, config, audioVars, uiPrompt, loading,
                 runConfig, phRun, phUri, dbVars, appVars>>

NextImage == retryNext \/ SI_Settled

SpecImage == InitImage /\ [][NextImage]_vars

\* ------------------------------------------------------ the history database
\* the keys and the timestamps of the records the database is run with
Ids == 1..3

Stamps == 1..3

\* a HistoryItem: its key, its timestamp and the revisions of its images and
\* of its thumbnail
HistoryItem(id, timestamp) ==
  [id |-> id, timestamp |-> timestamp, images |-> 0, thumbnail |-> 0]

HistoryItems == {HistoryItem(id, t) : id \in Ids, t \in Stamps}

Range(f) == {f[x] : x \in DOMAIN f}

\* an object store with keyPath 'id' holds one record per key
keysUnique(S) == \A a, b \in S : a.id = b.id => a = b

\* a transaction that adds the items to what is stored
saveTransactionNoClear(st, items) ==
  IF /\ \A m, n \in DOMAIN items : m # n => items[m].id # items[n].id
     /\ keysUnique(st \cup Range(items))
  THEN [completed |-> TRUE, store |-> st \cup Range(items)]
  ELSE [completed |-> FALSE, store |-> st]

\* store.clear(); items.forEach(item => store.add(item)) in one transaction:
\* add fails on a key that is present, which aborts the transaction
saveTransaction(st, items) ==
  IF \A m, n \in DOMAIN items : m # n => items[m].id # items[n].id
  THEN [completed |-> TRUE, store |-> Range(items)]
  ELSE [completed |-> FALSE, store |-> st]

\* store.getAll(): the records in key order
RECURSIVE getAll(_)
getAll(st) ==
  IF st = {} THEN <<>>
  ELSE LET r == CHOOSE x \in st : \A y \in st : x.id <= y.id
       IN <<r>> \o getAll(st \ {r})

\* one step of the stable sort: r goes before the first record that is not newer
RECURSIVE insertByTimestamp(_, _)
insertByTimestamp(r, sorted) ==
  IF sorted = <<>> THEN <<r>>
  ELSE IF Head(sorted).timestamp > r.timestamp
       THEN <<Head(sorted)>> \o insertByTimestamp(r, Tail(sorted))
       ELSE <<r>> \o sorted

\* results.sort((a, b) => b.timestamp - a.timestamp)
RECURSIVE sortByTimestamp(_)
sortByTimestamp(results) ==
  IF results = <<>> THEN <<>>
  ELSE insertByTimestamp(Head(results), sortByTimestamp(Tail(results)))

\* the lists saveHistoryToDB is called with
ItemLists == UNION {[1..m -> HistoryItems] : m \in 0..MaxItems}

\* saveHistoryToDB(items): resolves when the transaction completed
saveHistoryToDB(items) ==
  /\ pc = "DB"
  /\ LET t == saveTransaction(store, items) IN
       /\ store' = t.store
       /\ lastWrite' = IF t.completed THEN [op |-> "save", items |-> items] ELSE lastWrite
  /\ loaded' = NoValue
  /\ UNCHANGED <<phRun, phUri, imgOut, appVars, studioVars>>

\* loadHistoryFromDB(): resolves with the sorted records
loadHistoryFromDB ==
  /\ pc = "DB"
  /\ loaded' = [list |-> sortByTimestamp(getAll(store))]
  /\ UNCHANGED <<store, lastWrite, phRun, phUri, imgOut, appVars, studioVars>>

\* clearHistoryDB(): resolves when the transaction completed
clearHistoryDB ==
  /\ pc = "DB"
  /\ store' = {}
  /\ lastWrite' = [op |-> "clear", items |-> <<>>]
  /\ loaded' = NoValue
  /\ UNCHANGED <<phRun, phUri, imgOut, appVars, studioVars>>

\* a database earlier sessions have written to
InitDB ==
  /\ pc = "DB"
  /\ studioIdle
  /\ phRun = <<>>
  /\ phUri = <<>>
  /\ imgOut = NoValue
  /\ store \in {S \in SUBSET HistoryItems : keysUnique(S)}
  /\ lastWrite = NoValue
  /\ loaded = NoValue
  /\ appIdle

NextDB ==
  \/ \E items \in ItemLists : saveHistoryToDB(items)
  \/ loadHistoryFromDB
  \/ clearHistoryDB

SpecDB == InitDB /\ [][NextDB]_vars

\* ------------------------------------------------------- the history of App
\* .slice(0, 30)
HistoryCap == 30

\* how many records earlier sessions have left in the database
StoredCounts == {0, 1, HistoryCap - 1, HistoryCap}

\* how generateContent settles for handleGenerate: it resolves with a result
\* or rejects at the key check, the text call, JSON.parse or the audio stage
GenerateOutcomes ==
  {[kind |-> "resolved", at |-> "complete"]}
  \cup {[kind |-> "rejected", at |-> a] : a \in {"credential", "text", "parse", "audio"}}

\* Array.prototype.slice(0, n)
slice0(list, n) == SubSeq(list, 1, IF Len(list) < n THEN Len(list) ELSE n)

\* a record shown as the result; made tells which production it came from,
\* which the program keeps nowhere
resultOf(item) ==
  [kind |-> "result", id |-> item.id, made |-> item.id, images |-> item.images,
   thumbnail |-> item.thumbnail]

\* setResult(studioResult): what generateContent returned has no id (0)
FreshResult(made) ==
  [kind |-> "result", id |-> 0, made |-> made, images |-> 0, thumbnail |-> 0]

\* how a readwrite transaction with these items may end: as saveTransaction
\* says, or aborted by the engine (quota, disk) with the store as it was
transactionOutcomes(st, items) ==
  {saveTransaction(st, items), [completed |-> FALSE, store |-> st]}

\* what the handlers of the history leave alone
appFrame ==
  /\ UNCHANGED <<apiKey, targetWordCount, data, i, images, isQuotaExhausted, thumbnail,
                 audio, progress, sleeps, imgErr, audioFail, settled>>
  /\ UNCHANGED <<retryVars, inFlight, nCalls, called, config, audioVars, uiPrompt, runConfig,
                 phRun, phUri, imgOut, loaded>>

\* useEffect(() => { loadHistoryFromDB().then(setHistory) }, [])
App_HistoryLoaded ==
  /\ pc = "HistoryMount"
  /\ pc' = "App"
  /\ history' = sortByTimestamp(getAll(store))
  /\ dbCalls' = Append(dbCalls, [op |-> "load", by |-> "mount"])
  /\ UNCHANGED <<store, lastWrite, result, hg, rg, ch, alerts, clock, started, loading>>
  /\ appFrame

\* how many handlers of the history the user has started, at most MaxClicks
clicks == started.runs + started.regens + started.thumbs + started.clears

\* the form with the Start Production button is rendered when !result &&
\* !loading
formShownWhileLoading == result = NoValue

formShown == result = NoValue /\ ~loading

\* handleGenerate up to `await generateContent(...)`: the closure holds the
\* history of this render
handleGenerate_Run ==
  /\ pc = "App"
  /\ formShown
  /\ handleGenerate_Proceeds(uiPrompt, config)
  /\ started.runs < MaxRuns
  /\ clicks < MaxClicks
  /\ started' = [started EXCEPT !.runs = @ + 1]
  /\ loading' = TRUE
  /\ result' = NoValue
  /\ hg' = [pc |-> "awaiting", history |-> history, out |-> NoValue, saved |-> FALSE]
  /\ UNCHANGED <<pc, store, lastWrite, history, rg, ch, alerts, dbCalls, clock>>
  /\ appFrame

\* const updatedHistory = [newItem, ...history].slice(0, 30), on the history
\* the closure captured
updatedHistory(captured, item) == slice0(<<item>> \o captured, HistoryCap)

\* generateContent resolved: setResult, newItem, setHistory, saveHistoryToDB
handleGenerate_Resolved ==
  /\ pc = "App"
  /\ hg.pc = "awaiting"
  /\ LET newItem == HistoryItem(clock, clock)
         updated == updatedHistory(hg.history, newItem)
     IN /\ result' = FreshResult(clock)
        /\ history' = updated
        /\ \E t \in transactionOutcomes(store, updated) :
             /\ store' = t.store
             /\ lastWrite' = IF t.completed THEN [op |-> "save", items |-> updated]
                              ELSE lastWrite
             /\ hg' = [hg EXCEPT !.pc = "saving",
                                 !.out = [kind |-> "resolved", at |-> "complete"],
                                 !.saved = t.completed]
  /\ clock' = clock + 1
  /\ dbCalls' = Append(dbCalls, [op |-> "save", by |-> "handleGenerate"])
  /\ UNCHANGED <<pc, rg, ch, alerts, started, loading>>
  /\ appFrame

\* a catch block that keeps a record of the failed run
handleGenerate_CatchRecords(list, stamp) == <<HistoryItem(stamp, stamp)>> \o list

\* the catch block leaves the history as it is
handleGenerate_Catch(list, stamp) == list

\* generateContent rejected: catch (alert) and finally
handleGenerate_Rejected ==
  /\ pc = "App"
  /\ hg.pc = "awaiting"
  /\ \E o \in GenerateOutcomes :
       /\ o.kind = "rejected"
       /\ hg' = [hg EXCEPT !.pc = "idle", !.out = o]
       /\ alerts' = Append(alerts, [cause |-> o.at])
  /\ history' = handleGenerate_Catch(history, clock)
  /\ loading' = FALSE
  /\ UNCHANGED <<pc, store, lastWrite, result, rg, ch, dbCalls, clock, started>>
  /\ appFrame

\* saveHistoryToDB settled: the catch block if it rejected, then finally
handleGenerate_SaveSettled ==
  /\ pc = "App"
  /\ hg.pc = "saving"
  /\ hg' = [hg EXCEPT !.pc = "idle"]
  /\ alerts' = IF hg.saved THEN alerts ELSE Append(alerts, [cause |-> "save"])
  /\ loading' = FALSE
  /\ UNCHANGED <<pc, store, lastWrite, history, result, rg, ch, dbCalls, clock, started>>
  /\ appFrame

\* handleRegenerateClip up to `await generateStudioImage(...)`; StudioOutput is
\* rendered when result && !loading, and the clip shows no button while its
\* regeneration runs
handleRegenerateClip_Run ==
  /\ pc = "App"
  /\ result # NoValue
  /\ ~loading
  /\ rg.clip.pc = "idle"
  /\ started.regens < MaxRegens
  /\ clicks < MaxClicks
  /\ started' = [started EXCEPT !.regens = @ + 1]
  /\ rg' = [rg EXCEPT !.clip = [pc |-> "awaiting", history |-> history, result |-> result]]
  /\ UNCHANGED <<pc, store, lastWrite, history, result, hg, ch, alerts, dbCalls, clock,
                 loading>>
  /\ appFrame

\* history.map(h => h.id === result.id ? { ...h, images: newImages } : h)
mapImages(list, id, newImages) ==
  [n \in DOMAIN list |-> IF list[n].id = id THEN [list[n] EXCEPT !.images = newImages]
                          ELSE list[n]]

\* generateStudioImage resolved: setResult, setHistory, saveHistoryToDB; what
\* follows the save changes nothing
handleRegenerateClip_Resolved ==
  /\ pc = "App"
  /\ rg.clip.pc = "awaiting"
  /\ LET newImages == rg.clip.result.images + 1
         updated == mapImages(rg.clip.history, rg.clip.result.id, newImages)
     IN /\ result' = [rg.clip.result EXCEPT !.images = newImages]
        /\ history' = updated
        /\ \E t \in transactionOutcomes(store, updated) :
             /\ store' = t.store
             /\ lastWrite' = IF t.completed THEN [op |-> "save", items |-> updated]
                              ELSE lastWrite
  /\ rg' = [rg EXCEPT !.clip = [pc |-> "idle", history |-> <<>>, result |-> NoValue]]
  /\ dbCalls' = Append(dbCalls, [op |-> "save", by |-> "handleRegenerateClip"])
  /\ UNCHANGED <<pc, hg, ch, alerts, clock, started, loading>>
  /\ appFrame

\* generateStudioImage rejected: console.error
handleRegenerateClip_Rejected ==
  /\ pc = "App"
  /\ rg.clip.pc = "awaiting"
  /\ rg' = [rg EXCEPT !.clip = [pc |-> "idle", history |-> <<>>, result |-> NoValue]]
  /\ UNCHANGED <<pc, store, lastWrite, history, result, hg, ch, alerts, dbCalls, clock,
                 started, loading>>
  /\ appFrame

\* handleRegenerateThumbnail up to `await generateStudioImage(...)`; its button
\* is disabled while isRegeneratingThumbnail
handleRegenerateThumbnail_Run ==
  /\ pc = "App"
  /\ result # NoValue
  /\ ~loading
  /\ rg.thumbnail.pc = "idle"
  /\ started.thumbs < MaxRegens
  /\ clicks < MaxClicks
  /\ started' = [started EXCEPT !.thumbs = @ + 1]
  /\ rg' = [rg EXCEPT !.thumbnail =
                        [pc |-> "awaiting", history |-> history, result |-> result]]
  /\ UNCHANGED <<pc, store, lastWrite, history, result, hg, ch, alerts, dbCalls, clock,
                 loading>>
  /\ appFrame

\* history.map(h => h.id === result.id ? { ...h, thumbnail: newThumbnail } : h)
mapThumbnail(list, id, newThumbnail) ==
  [n \in DOMAIN list |-> IF list[n].id = id
                          THEN [list[n] EXCEPT !.thumbnail = newThumbnail]
                          ELSE list[n]]

\* generateStudioImage resolved: setResult, setHistory, saveHistoryToDB
handleRegenerateThumbnail_Resolved ==
  /\ pc = "App"
  /\ rg.thumbnail.pc = "awaiting"
  /\ LET newThumbnail == rg.thumbnail.result.thumbnail + 1
         updated == mapThumbnail(rg.thumbnail.history, rg.thumbnail.result.id, newThumbnail)
     IN /\ result' = [rg.thumbnail.result EXCEPT !.thumbnail = newThumbnail]
        /\ history' = updated
        /\ \E t \in transactionOutcomes(store, updated) :
             /\ store' = t.store
             /\ lastWrite' = IF t.completed THEN [op |-> "save", items |-> updated]
                              ELSE lastWrite
  /\ rg' = [rg EXCEPT !.thumbnail = [pc |-> "idle", history |-> <<>>, result |-> NoValue]]
  /\ dbCalls' = Append(dbCalls, [op |-> "save", by |-> "handleRegenerateThumbnail"])
  /\ UNCHANGED <<pc, hg, ch, alerts, clock, started, loading>>
  /\ appFrame

\* generateStudioImage rejected: console.error
handleRegenerateThumbnail_Rejected ==
  /\ pc = "App"
  /\ rg.thumbnail.pc = "awaiting"
  /\ rg' = [rg EXCEPT !.thumbnail = [pc |-> "idle", history |-> <<>>, result |-> NoValue]]
  /\ UNCHANGED <<pc, store, lastWrite, history, result, hg, ch, alerts, dbCalls, clock,
                 started, loading>>
  /\ appFrame

\* clearHistory, confirmed, up to the end of `await clearHistoryDB()`
clearHistory ==
  /\ pc = "App"
  /\ ch.pc = "idle"
  /\ started.clears < MaxClears
  /\ clicks < MaxClicks
  /\ started' = [started EXCEPT !.clears = @ + 1]
  /\ ch' = [pc |-> "awaiting", before |-> clock]
  /\ store' = {}
  /\ lastWrite' = [op |-> "clear", items |-> <<>>]
  /\ dbCalls' = Append(dbCalls, [op |-> "clear", by |-> "clearHistory"])
  /\ UNCHANGED <<pc, history, result, hg, rg, alerts, clock, loading>>
  /\ appFrame

\* clearHistoryDB resolved: setHistory([])
clearHistory_Done ==
  /\ pc = "App"
  /\ ch.pc = "awaiting"
  /\ ch' = [ch EXCEPT !.pc = "idle"]
  /\ history' = <<>>
  /\ UNCHANGED <<pc, store, lastWrite, result, hg, rg, alerts, dbCalls, clock, started,
                 loading>>
  /\ appFrame

\* a card of the history view is clicked: setResult(item)
selectHistoryItem ==
  /\ pc = "App"
  /\ \E n \in {1, Len(history)} \cap DOMAIN history :
       /\ result # resultOf(history[n])
       /\ result' = resultOf(history[n])
  /\ UNCHANGED <<pc, store, lastWrite, history, hg, rg, ch, alerts, dbCalls, clock,
                 started, loading>>
  /\ appFrame

\* New Production, or the Studio tab: setResult(null)
newProduction ==
  /\ pc = "App"
  /\ result # NoValue
  /\ result' = NoValue
  /\ UNCHANGED <<pc, store, lastWrite, history, hg, rg, ch, alerts, dbCalls, clock,
                 started, loading>>
  /\ appFrame

\* App is constructed over the database earlier sessions left
InitHistory ==
  /\ pc = "HistoryMount"
  /\ gcFresh
  /\ retryOff
  /\ inFlight = 0
  /\ nCalls = -1
  /\ config = DefaultConfig
  /\ audioIdle
  /\ uiPrompt = "idea"
  /\ loading = FALSE
  /\ runConfig = DefaultConfig
  /\ phRun = <<>>
  /\ phUri = <<>>
  /\ imgOut = NoValue
  /\ \E k \in StoredCounts :
       /\ store = {HistoryItem(n, n) : n \in 1..k}
       /\ clock = k + 1
  /\ lastWrite = NoValue
  /\ loaded = NoValue
  /\ history = <<>>
  /\ result = NoValue
  /\ handlersIdle

NextHistory ==
  \/ App_HistoryLoaded
  \/ handleGenerate_Run
  \/ handleGenerate_Resolved
  \/ handleGenerate_Rejected
  \/ handleGenerate_SaveSettled
  \/ handleRegenerateClip_Run
  \/ handleRegenerateClip_Resolved
  \/ handleRegenerateClip_Rejected
  \/ handleRegenerateThumbnail_Run
  \/ handleRegenerateThumbnail_Resolved
  \/ handleRegenerateThumbnail_Rejected
  \/ clearHistory
  \/ clearHistory_Done
  \/ selectHistoryItem
  \/ newProduction

SpecHistory == InitHistory /\ [][NextHistory]_vars

\* ================================================================ claims
\* the slots of the image loop that have been filled so far
FilledSlots == 1..Len(images)

\* the errors of a remote call whose message carries a rate-limit marker
\* and no credential marker
RateLimitSignals == {Error429, ErrorResExh, ErrorObj429}

\* the errors of a remote call that carry a credential marker
CredentialSignals == {Error403, Error429Auth}

\* C1 (as claimed): once the image call of a slot has failed with a rate-limit
\* signal (here the narrowest one, a message containing '429'), that slot and
\* every later slot hold placeholders, the thumbnail is a placeholder, and no
\* remote call is issued for a later slot or for the thumbnail.
C1_QuotaStopsRemoteImageCalls ==
  \A k \in FilledSlots :
    imgErr[k] = Error429 =>
      /\ IsPlaceholder(images[k])
      /\ \A j \in FilledSlots : j > k =>
           IsPlaceholder(images[j]) /\ ImageStage(j - 1) \notin called
      /\ "thumb" \notin called
      /\ (thumbnail # NoValue => IsPlaceholder(thumbnail))

\* C2: when the retried text call has rejected, generateContent rejects with
\* retry's error, and a failed run has issued no image, thumbnail or audio
\* call and has produced no result.
C2_TextFailureIsFatal ==
  /\ [](pc = "Failed" /\ "text" \in called /\ 25 \notin {progress[n] : n \in DOMAIN progress}
        => /\ called = {"text"}
           /\ settled.kind = "rejected"
           /\ images = <<>> /\ thumbnail = NoValue /\ audio = NoValue)
  /\ [][(pc = "Text" /\ rState = "rejected")
        => /\ pc' = "Failed"
           /\ settled' = [kind |-> "rejected", err |-> rOut.err, at |-> "text"]
           /\ called' = {"text"}]_vars

C2_Witness ==
  /\ pc = "Failed"
  /\ called = {"text"}
  /\ settled.kind = "rejected"
  /\ settled.err = Error429

\* C3 (as claimed, its second half): no run rejects after the text call has
\* returned a response, that is, once progress 25 has been reported.
C3_NoRejectAfterTextReturned ==
  pc = "Failed" => 25 \notin {progress[n] : n \in DOMAIN progress}

\* C4 (as claimed): when the text response body is empty or is not JSON,
\* generateContent does not reject and goes on with the empty content object.
C4_UnparsableTextDegrades ==
  [][(pc = "Text" /\ rState = "resolved" /\ rOut.val.text \in {"empty", "invalid"})
     => /\ pc' # "Failed"
        /\ data' = [kind |-> "object", imagePrompts |-> -1, own |-> {}]]_vars

\* C5: when generateStudioImage fails for an image slot or for the thumbnail
\* (retry rejected with a remote or a credential error, or the response has no
\* inline payload), the slot gets its placeholder and the run does not reject.
C5_ImageFailureGivesPlaceholder ==
  [][(/\ pc \in {"ImageCall", "ThumbCall"}
      /\ \/ rState = "rejected"
         \/ rState = "resolved" /\ \A j \in DOMAIN rOut.val.parts :
                                      rOut.val.parts[j].inlineData = "none")
     => /\ pc' # "Failed"
        /\ settled' = NoValue
        /\ IF pc = "ImageCall"
           THEN /\ Len(images') >= i + 1
                /\ images'[i + 1] = Placeholder(SeedErr(i), config.aspectRatio)
           ELSE thumbnail' = Placeholder("thumb", config.aspectRatio)]_vars

\* a run completed although slots failed with a transient, a credential, a
\* no-payload and a rate-limit failure and the thumbnail failed too
C5_Witness ==
  /\ pc = "Complete"
  /\ Len(imgErr) = NumImages + 1
  /\ {imgErr[k] : k \in 1..NumImages} = {NetError, CredentialError, NoImageError, Error429}
  /\ \A k \in 1..NumImages : images[k] = Placeholder(SeedErr(k - 1), config.aspectRatio)
  /\ imgErr[NumImages + 1] = CredentialError
  /\ thumbnail = Placeholder("thumb", config.aspectRatio)

\* C6: generateStudioAudio never rejects: whatever the retried speech call
\* did, the run goes from the audio stage to Complete with progress 100, and
\* with the empty artifact unless a decodable payload came back.
C6_AudioNeverRejects ==
  [][(pc = "Audio" /\ rState \in {"resolved", "rejected"})
     => /\ pc' = "Complete"
        /\ settled'.kind = "resolved"
        /\ progress'[Len(progress')] = 100
        /\ (rState = "rejected" \/ rOut.val.payload # "pcm")
             => (audio' = EmptyAudio /\ settled'.audioBlob = EmptyAudio
                 /\ settled'.audioUrl = "")]_vars

C6_Witness ==
  /\ pc = "Complete"
  /\ audioFail = "atob threw"
  /\ audio = EmptyAudio
  /\ progress[Len(progress)] = 100

\* C7: retry invokes fn at most retries+1 times; when retries+1 invocations
\* have failed with errors that carry no credential marker, retry has rejected
\* with the error of the last invocation and has slept retries times only.
C7_RetryIsBounded ==
  /\ rCalls <= rRetries + 1
  /\ (rState # "off" /\ Len(rErrs) = rRetries + 1
      /\ \A n \in DOMAIN rErrs : rErrs[n] \notin CredentialSignals)
     => /\ rState = "rejected"
        /\ rOut = [kind |-> "rejected", err |-> rErrs[Len(rErrs)]]
        /\ rCalls = rRetries + 1
        /\ Len(rWaits) = rRetries

C7_Witness ==
  /\ rState = "rejected"
  /\ rRetries >= 2
  /\ rCalls = rRetries + 1
  /\ rErrs[Len(rErrs)] = ErrorResExh
  /\ rOut.err = ErrorResExh
  /\ rErrs[1] = NetError

\* C8: as soon as an attempt fails with an error that carries a credential
\* marker, retry has rejected with the credential-configuration error: that
\* attempt is the last one and no sleep follows it; if it is the first
\* attempt, fn has been invoked once and retry has not slept.
C8_CredentialFailsFast ==
  \A n \in DOMAIN rErrs :
    rErrs[n] \in CredentialSignals =>
      /\ n = Len(rErrs)
      /\ rState = "rejected"
      /\ rOut = [kind |-> "rejected", err |-> CredentialError]
      /\ rCalls = n
      /\ Len(rWaits) = n - 1

C8_Witness ==
  /\ rState = "rejected"
  /\ rRetries >= 1
  /\ rErrs = <<Error403>>
  /\ rCalls = 1
  /\ rWaits = <<>>
  /\ rOut.err = CredentialError

\* C9: when retries >= 1 and the first call of fn fails with a rate-limit
\* signal, retry sleeps at least 3 * initialDelay and calls fn again; when
\* that second call succeeds retry resolves with its value, after exactly two
\* invocations and that one sleep.
C9_RateLimitThenSuccess ==
  (rState # "off" /\ rRetries >= 1 /\ Len(rErrs) = 1 /\ rErrs[1] \in RateLimitSignals)
  => /\ rState \in {"sleeping", "ready", "inflight", "resolved"}
     /\ Len(rWaits) = 1
     /\ rWaits[1] >= 3 * rDelay0
     /\ rState = "resolved"
          => /\ rCalls = 2
             /\ fnOut = [kind |-> "value", call |-> 2] \/ rCaller # "harness"
             /\ rOut = [kind |-> "resolved", val |-> fnOut]

C9_Witness ==
  /\ rState = "resolved"
  /\ rErrs = <<Error429>>
  /\ rCalls = 2
  /\ rWaits = <<3 * rDelay0>>
  /\ rOut.val = [kind |-> "value", call |-> 2]

\* C10: a completed run returns exactly 4 images and one thumbnail; the image
\* of slot k is the image generated for prompt k (the generic prompt when the
\* text response has no k-th prompt) or a placeholder of slot k.
C10_FourImagesOneThumbnail ==
  pc = "Complete" =>
    /\ Len(settled.images) = 4
    /\ \A k \in 0..3 :
         settled.images[k + 1] \in
           {DataUri(k, IF data.imagePrompts > k THEN "specific" ELSE "generic"),
            Placeholder(SeedErr(k), config.aspectRatio), Placeholder(SeedQuota(k), config.aspectRatio)}
    /\ settled.thumbnail \in {DataUri(4, "thumbnail"), Placeholder("thumb", config.aspectRatio)}

\* a completed run whose text response carried two prompts only
C10_Witness ==
  /\ pc = "Complete"
  /\ data.imagePrompts = 2
  /\ settled.images[2] = DataUri(1, "specific")
  /\ settled.images[3] = DataUri(2, "generic")
  /\ settled.images[4] = Placeholder(SeedErr(3), config.aspectRatio)
  /\ settled.thumbnail = DataUri(4, "thumbnail")

\* C11: the result's contentType and aspectRatio are the config's, and its
\* images, thumbnail, audioBlob and audioUrl are the ones the stages produced,
\* whichever of these names the parsed text response carries itself.
C11_ResultFieldsNotFromText ==
  pc = "Complete" =>
    /\ settled.contentType = config.contentType
    /\ settled.aspectRatio = config.aspectRatio
    /\ settled.images = images
    /\ settled.thumbnail = thumbnail
    /\ settled.audioBlob = audio
    /\ settled.audioUrl = (IF audio = EmptyAudio THEN "" ELSE "blob:wav")

\* a completed podcast run whose text response carried all six names
C11_Witness ==
  /\ pc = "Complete"
  /\ data.own = ResultNames
  /\ config.contentType = "Podcast"
  /\ config.aspectRatio = "16:9"
  /\ settled.contentType = "Podcast"
  /\ settled.audioBlob = [kind |-> "wav"]

\* C12: the values passed to onProgress are non-decreasing and lie in
\* [0,100], and the values reported by the image loop (the third to the sixth
\* report) are below 90.
C12_ProgressMonotone ==
  /\ \A n \in DOMAIN progress : progress[n] >= 0 /\ progress[n] <= 100
  /\ \A n, m \in DOMAIN progress : n < m => progress[n] <= progress[m]
  /\ \A n \in DOMAIN progress : (n >= 3 /\ n <= 6) => progress[n] < 90

\* a completed run with a generated image, a failed slot and two quota skips
C12_Witness ==
  /\ pc = "Complete"
  /\ progress = <<5, 25, 40, 55, 70, 85, 90, 100>>
  /\ images[1].kind = "data"
  /\ images[2] = Placeholder(SeedErr(1), config.aspectRatio)
  /\ images[3] = Placeholder(SeedQuota(2), config.aspectRatio)
  /\ images[4] = Placeholder(SeedQuota(3), config.aspectRatio)

\* the place of a stage in the order text, images 0..3, thumbnail, audio
StageRank(s) ==
  CASE s = "text" -> 1
    [] s = "image0" -> 2
    [] s = "image1" -> 3
    [] s = "image2" -> 4
    [] s = "image3" -> 5
    [] s = "thumb" -> 6
    [] s = "audio" -> 7
    [] OTHER -> 0

\* C13: at most one remote call is in flight; a remote call (first attempt
\* or retry) is issued only when none is pending, and no call of a later
\* stage has been issued before it.
C13_OneRemoteCallAtATime ==
  /\ [](inFlight <= 1)
  /\ [][inFlight' > inFlight
        => /\ inFlight = 0
           /\ rCaller \in called'
           /\ \A t \in called' : StageRank(t) <= StageRank(rCaller)]_vars

\* the retry of the audio call is in flight after calls of all earlier stages
C13_Witness ==
  /\ pc = "Audio"
  /\ rState = "inflight"
  /\ inFlight = 1
  /\ rCalls = 2
  /\ called = {"text", "image0", "image1", "image2", "image3", "thumb", "audio"}

\* the stages still ahead of the pipeline, counted from its position
StagesLeft ==
  CASE pc = "Idle" -> 13
    [] pc = "Text" -> 12
    [] pc = "ImageSleep" -> 11 - 2 * i
    [] pc = "ImageCall" -> 10 - 2 * i
    [] pc = "ThumbSleep" -> 3
    [] pc = "ThumbCall" -> 2
    [] pc = "Audio" -> 1
    [] OTHER -> 0

\* the steps still ahead of the current retry(): three per remaining
\* attempt (call, catch, sleep)
AttemptsLeft ==
  IF rState = "off" THEN 0
  ELSE (rRetries - rI) * 3
       + (CASE rState = "ready" -> 3
            [] rState = "inflight" -> 2
            [] rState = "sleeping" -> 1
            [] OTHER -> 0)

\* a measure every step of the run decreases
Rank == StagesLeft * (3 * MaxRetries + 4) + AttemptsLeft

\* C14: when every remote call and every timer settles, a started run
\* reaches Complete or Failed; every step brings the run closer to its end
\* (no stage retries or loops forever).
C14_RunTerminates ==
  /\ <>(pc \in {"Complete", "Failed"})
  /\ [][Rank' < Rank /\ Rank' >= 0]_vars

\* a run completed although one image and the audio call used up their retries
C14_Witness ==
  /\ pc = "Complete"
  /\ imgErr[1] = NetError
  /\ audioFail = "retry rejected"
  /\ Len(sleeps) = 5

\* C15: with an absent credential (unset, empty or the string "undefined")
\* a started run has rejected with the missing-key error, an error that is
\* neither a rate-limit nor any other failure of the pipeline, without
\* issuing a remote call or reporting progress; no run with a usable key
\* rejects with that error.
C15_MissingKeyRejectsFirst ==
  /\ (apiKey \in {"unset", "empty", "undefined"} /\ pc # "Idle")
       => /\ pc = "Failed"
          /\ settled = [kind |-> "rejected", err |-> MissingKeyError, at |-> "credential"]
          /\ called = {}
          /\ inFlight = 0
          /\ rState = "off"
          /\ progress = <<>>
  /\ (apiKey = "set" /\ pc = "Failed") => settled.err # MissingKeyError
  /\ MissingKeyError \notin PipelineErrors
                            \cup {CredentialError, NoImageError, SyntaxError, TypeError}
  /\ ~isRateLimit(MissingKeyError)
  /\ ~isAuthError(MissingKeyError)

\* a run rejected because the key is the string "undefined"
C15_Witness ==
  /\ pc = "Failed"
  /\ apiKey = "undefined"
  /\ settled.err = MissingKeyError

\* the unsigned 32-bit little-endian field at a byte offset (from 0)
fieldAt(bytes, offset) ==
  bytes[offset + 1] + 256 * bytes[offset + 2] + 65536 * bytes[offset + 3]
    + 16777216 * bytes[offset + 4]

\* everything after the header of a container
payloadOf(bytes) == SubSeq(bytes, 45, Len(bytes))

\* C16: a header returned by createWavHeader(L, R) has 44 bytes, its field at
\* offset 4 holds 36+L and its field at offset 40 holds L; a container built
\* by generateStudioAudio has 44+L bytes, the header first and the decoded
\* PCM bytes right after it.
C16_WavContainerLengths ==
  /\ wavHeader # <<>>
       => /\ Len(wavHeader) = 44
          /\ fieldAt(wavHeader, 4) = 36 + hdrArgs[1]
          /\ fieldAt(wavHeader, 40) = hdrArgs[1]
  /\ combined # <<>>
       => /\ hdrArgs[1] = Len(decoded)
          /\ Len(combined) = 44 + Len(decoded)
          /\ SubSeq(combined, 1, 44) = wavHeader
          /\ payloadOf(combined) = decoded

\* a container around three decoded bytes
C16_Witness ==
  /\ pc = "AudioDone"
  /\ Len(decoded) = 3
  /\ Len(combined) = 47
  /\ fieldAt(combined, 4) = 39

\* out is the product x * f clamped to 16 bits, up to the dropped fraction
productMatches(x, f, out) ==
  LET p == x * f.num IN
  IF p >= 32767 * f.den THEN out = 32767
  ELSE IF p <= (-32768) * f.den THEN out = -32768
  ELSE out * f.den - p < f.den /\ p - out * f.den < f.den

\* C17: a container returned by generateStudioAudio declares 24000 Hz, and
\* when config.volume is not 1.0 each of its samples is the decoded sample
\* times the volume factor, clamped to [-32768, 32767].
C17_LiveAdapterAppliesVolume ==
  (pc = "AudioDone" /\ combined # <<>>)
    => /\ fieldAt(combined, 24) = 24000
       /\ config.volume.num # config.volume.den
            => \A k \in 1..(Len(decoded) \div 2) :
                 productMatches(int16At(decoded, k), config.volume,
                                int16At(payloadOf(combined), k))

\* C18: the gain stage of part_000 leaves the bytes as they are for factor
\* 1.0; for any other factor (0, negative and large ones included) each
\* output sample lies in [-32768, 32767] and is the clamped product of the
\* decoded sample and the factor.
C18_GainClampsProduct ==
  (pc = "GainDone" /\ audioFail = "no")
    => /\ config.volume.num = config.volume.den => pcmData = decoded
       /\ config.volume.num # config.volume.den
            => /\ Len(pcmData) = Len(decoded)
               /\ \A k \in 1..(Len(decoded) \div 2) :
                    /\ int16At(pcmData, k) >= -32768
                    /\ int16At(pcmData, k) <= 32767
                    /\ productMatches(int16At(decoded, k), config.volume,
                                      int16At(pcmData, k))

\* the voice name VOICES gives for an id, the first entry's for an unknown id
ExpectedVoice(id) ==
  CASE id = "v1" -> "Puck"
    [] id = "v2" -> "Charon"
    [] id = "v3" -> "Fenrir"
    [] id = "v4" -> "Kore"
    [] id = "v5" -> "Zephyr"
    [] id = "v6" -> "Aoede"
    [] OTHER -> "Puck"

\* C19: the speech request of a Podcast config carries a two-speaker
\* configuration with two distinct voices; the request of any other config
\* carries the single voice of config.voiceId, or the first voice of VOICES
\* when no voice has that id.
C19_SpeechConfigByFormat ==
  pc \in {"AudioCall", "AudioDone"}
    => IF config.contentType = "Podcast"
       THEN /\ audioParams.speechConfig.kind = "multiSpeakerVoiceConfig"
            /\ Len(audioParams.speechConfig.voices) = 2
            /\ audioParams.speechConfig.voices[1] # audioParams.speechConfig.voices[2]
       ELSE /\ audioParams.speechConfig.kind = "voiceConfig"
            /\ audioParams.speechConfig.voices = <<ExpectedVoice(config.voiceId)>>

\* C20: whenever handleGenerate has passed a config to generateContent, its
\* duration is non-negative and at most 60 seconds for the short format,
\* at most 300 seconds for every other format.
C20_DurationWithinFormatMax ==
  loading
    => /\ runConfig.durationMinutes * 60 + runConfig.durationSeconds >= 0
       /\ runConfig.durationMinutes * 60 + runConfig.durationSeconds
            <= (IF runConfig.contentType = "Reel" THEN 60 ELSE 300)

\* a short-form run started at the clamped maximum of 60 seconds
C20_Witness ==
  /\ pc = "Ready"
  /\ loading
  /\ runConfig.contentType = "Reel"
  /\ runConfig.durationMinutes = 0
  /\ runConfig.durationSeconds = 60
  /\ config = runConfig

\* C21: the target word count is the product of the total seconds and the
\* speed multiplier (2 for Slow, 2.5 for Normal, 3 for Fast), a product
\* ending in .5 rounded up; 0m30s at Normal speed gives 75.
C21_TargetWordCount ==
  pc = "Text"
    => LET total == 60 * config.durationMinutes + config.durationSeconds IN
       /\ config.speed = "Slow" => targetWordCount = 2 * total
       /\ config.speed = "Fast" => targetWordCount = 3 * total
       /\ (config.speed = "Normal" /\ total % 2 = 0) => 2 * targetWordCount = 5 * total
       /\ (config.speed = "Normal" /\ total % 2 = 1) => 2 * targetWordCount = 5 * total + 1
       /\ (config.speed = "Normal" /\ total = 30) => targetWordCount = 75

\* 1m31s at Normal speed: 227.5 words, rounded to 228
C21_Witness ==
  /\ pc = "Text"
  /\ config.speed = "Normal"
  /\ config.durationMinutes = 1
  /\ config.durationSeconds = 31
  /\ targetWordCount = 228

\* C27: the wait after the k-th failed attempt (k from 0) is
\* initialDelay * 2^k, times 3 exactly when that attempt's error carries a
\* rate-limit signal; the base delay doubles once per failed attempt, so an
\* amplified wait does not change later waits.
C27_BackoffWaits ==
  rState # "off" =>
    /\ \A k \in 0..(Len(rWaits) - 1) :
         rWaits[k + 1] = rDelay0 * 2^k
                           * (IF rErrs[k + 1] \in RateLimitSignals THEN 3 ELSE 1)
    /\ rState \in {"ready", "inflight"} => currentDelay = rDelay0 * 2^Len(rWaits)

\* three waits: amplified, plain, amplified
C27_Witness ==
  /\ rState = "ready"
  /\ rErrs = <<Error429, NetError, ErrorResExh>>
  /\ rWaits = <<3 * rDelay0, 2 * rDelay0, 12 * rDelay0>>
  /\ currentDelay = 8 * rDelay0

\* C28: the pacing delay is waited before every image call except the
\* first: no pacing wait precedes the call for slot 0, and the call for each
\* later slot is preceded by one pacing wait for that slot.
C28_PacingExceptFirst ==
  /\ \A n \in DOMAIN sleeps : sleeps[n][1] # "image0"
  /\ \A k \in 1..3 :
       ImageStage(k) \in called
         => Cardinality({n \in DOMAIN sleeps : sleeps[n][1] = ImageStage(k)}) = 1

\* the image slots filled before slot k (from 1) whose failure carried a
\* rate-limit signal
RateLimitedBefore(k) ==
  {j \in 1..(k - 1) : j <= NumImages /\ imgErr[j] \in RateLimitSignals}

BothSubstituted == phUri # <<>> /\ \A r \in 1..2 : phUri[r] # NoValue

\* C30: placeholder URIs are pure functions of slot index and aspect ratio: two
\* runs that substitute a placeholder for the same slot with the same aspect
\* ratio push the identical URI whatever the reason (failed call or quota
\* skip), placeholders of different slots differ, and the dimensions are
\* 720/1280 for 9:16 and 1280/720 for 16:9.
C30_PlaceholdersPure ==
  BothSubstituted =>
    /\ (phRun[1].slot = phRun[2].slot /\ phRun[1].aspectRatio = phRun[2].aspectRatio)
         => phUri[1] = phUri[2]
    /\ phRun[1].slot # phRun[2].slot => phUri[1] # phUri[2]
    /\ \A r \in 1..2 :
         /\ phRun[r].aspectRatio = "9:16" => phUri[r].dims = "720/1280"
         /\ phRun[r].aspectRatio = "16:9" => phUri[r].dims = "1280/720"

\* C25: generateStudioImage resolves with the data URI of the first content
\* part that carries inline data; when the remote call succeeded and no part
\* carries inline data it rejects with the no-image-data error, which no remote
\* failure produces, after that one successful call: every other call of its
\* retry() had failed, and no call is pending or made afterwards.
C25_FirstInlinePartOrNoImage ==
  (pc = "StudioImageDone" /\ rState = "resolved") =>
    LET parts == fnOut.parts IN
    /\ (\E j \in DOMAIN parts : parts[j].inlineData # "none")
         => /\ imgOut.kind = "resolved"
            /\ \E j \in DOMAIN parts :
                 /\ parts[j].inlineData # "none"
                 /\ \A k \in 1..(j - 1) : parts[k].inlineData = "none"
                 /\ imgOut.uri.kind = "data"
                 /\ imgOut.uri.data = parts[j].inlineData
    /\ (\A j \in DOMAIN parts : parts[j].inlineData = "none")
         => /\ imgOut = [kind |-> "rejected", err |-> NoImageError]
            /\ NoImageError \notin FnErrors(rCaller) \cup {CredentialError}
    /\ rCalls = Len(rErrs) + 1
    /\ rCalls <= ImageRetries + 1
    /\ inFlight = 0
    /\ ~ENABLED retry_Call

\* the second attempt returned a text part, then "alt", then nothing: "alt"
C25_Witness ==
  /\ pc = "StudioImageDone"
  /\ Len(rErrs) = 1
  /\ rCalls = 2
  /\ fnOut.parts = <<TextPart, InlinePart("alt")>>
  /\ imgOut.kind = "resolved"
  /\ imgOut.uri.data = "alt"

\* C26: once saveHistoryToDB(items) has completed, loadHistoryFromDB resolves
\* with exactly the records of items, each once and none that was stored
\* before, ordered by timestamp descending; once clearHistoryDB has completed
\* it resolves with the empty list.
C26_LoadReturnsWhatWasSaved ==
  (loaded # NoValue /\ lastWrite # NoValue) =>
    /\ lastWrite.op = "save"
         => /\ {loaded.list[n] : n \in DOMAIN loaded.list}
                 = {lastWrite.items[n] : n \in DOMAIN lastWrite.items}
            /\ Len(loaded.list) = Len(lastWrite.items)
            /\ \A m, n \in DOMAIN loaded.list :
                 m < n => loaded.list[m].timestamp >= loaded.list[n].timestamp
    /\ lastWrite.op = "clear" => loaded.list = <<>>

\* two records saved oldest first are loaded newest first
C26_Witness ==
  /\ lastWrite # NoValue
  /\ lastWrite.op = "save"
  /\ lastWrite.items = <<HistoryItem(2, 1), HistoryItem(1, 2)>>
  /\ loaded # NoValue
  /\ loaded.list = <<HistoryItem(1, 2), HistoryItem(2, 1)>>

\* C22: the history never holds more than 30 records; the step in which a
\* production succeeds puts its new record in front of the records the history
\* held, in their order, cut after 30; and the snapshot the database holds once
\* the save of that step completed is the new list.
C22_ProductionPrependsAndCaps ==
  [][/\ Len(history') <= 30
     /\ (hg.pc = "awaiting" /\ hg'.pc = "saving")
          => /\ history' = SubSeq(<<history'[1]>> \o history, 1,
                                  IF Len(history) < 30 THEN Len(history) + 1 ELSE 30)
             /\ \A n \in DOMAIN history : history[n].id # history'[1].id
             /\ hg'.saved => /\ lastWrite' = [op |-> "save", items |-> history']
                              /\ store' = {history'[n] : n \in DOMAIN history'}]_vars

\* Some production of this session has failed and none is under way.
C23_Witness ==
  /\ hg.pc = "idle"
  /\ hg.out.kind = "rejected"
  /\ started.runs = 2
  /\ Len(alerts) = 1
  /\ Len(history) = 30
  /\ history[1].id = 31
  /\ store = {history[n] : n \in DOMAIN history}

\* C23: the step in which a production run fails leaves the in-memory history
\* and the database as they are and calls no database function; handleGenerate
\* changes the history and calls saveHistoryToDB only in the step in which
\* generateContent resolved.
C23_FailedRunTouchesNothing ==
  [][/\ (hg.pc = "awaiting" /\ hg'.pc # "awaiting" /\ hg'.out.kind = "rejected")
          => /\ history' = history
             /\ store' = store
             /\ lastWrite' = lastWrite
             /\ dbCalls' = dbCalls
     /\ (hg' # hg /\ (history' # history \/ dbCalls' # dbCalls \/ store' # store))
          => /\ hg.pc = "awaiting"
             /\ hg'.out.kind = "resolved"
             /\ dbCalls' = Append(dbCalls, [op |-> "save", by |-> "handleGenerate"])]_vars

\* C24: handleGenerate shows an alert only for a run whose text generation
\* failed fatally (the text call or the parsing of its response); a run that
\* failed elsewhere or in which generateContent produced a result shows none.
C24_AlertOnlyOnTextFailure ==
  \A n \in DOMAIN alerts : alerts[n].cause \in {"text", "parse"}

\* C36: the image loop and retry agree on what a rate-limit failure is: once an
\* image call has ended with its retries exhausted on an error retry classified
\* as rate-limit (the message holds 429 or RESOURCE_EXHAUSTED), the flag
\* isQuotaExhausted is set.
C36_RateLimitSetsQuotaFlag ==
  \A k \in 1..Len(images) :
    (imgErr[k] # NoErr /\ isRateLimit(imgErr[k])) => isQuotaExhausted

\* C37: a run of generateContent issues at most 21 remote calls: at most 4 in
\* the text stage, at most 3 for each image and for the thumbnail, at most 2
\* for the audio; a run whose text stage fails has issued at most 4.
C37_AtMost21Calls ==
  /\ nCalls <= 21
  /\ rCaller = "text" => (rCalls <= 4 /\ nCalls = rCalls)
  /\ rCaller \in {"image0", "image1", "image2", "image3", "thumb"} => rCalls <= 3
  /\ rCaller = "audio" => rCalls <= 2
  /\ \A k \in 0..4 : (pc \in {"ImageSleep", "ImageCall"} /\ i = k) => nCalls <= 4 + 3 * (k + 1)
  /\ (pc = "Failed" /\ settled.at \in {"text", "parse"}) => nCalls <= 4

\* every stage used all its attempts and the run completed
C37_Witness ==
  /\ pc = "Complete"
  /\ nCalls = 21

\* C38: a run that resolved has reported 100 exactly once, as its last report;
\* 100 is reported only when the audio stage has finished and the run resolves,
\* never in a run that rejects; and a run that rejects has reported nothing
\* above 25, the value of the text stage.
C38_Progress100OnlyAtTheEnd ==
  /\ pc = "Complete"
       => /\ progress # <<>>
          /\ progress[Len(progress)] = 100
          /\ \A n \in 1..(Len(progress) - 1) : progress[n] < 100
  /\ (\E n \in DOMAIN progress : progress[n] = 100)
       => (pc = "Complete" /\ audio # NoValue)
  /\ pc = "Failed" => \A n \in DOMAIN progress : progress[n] <= 25

\* the halves of the unsigned 32-bit little-endian field at a byte offset
halvesAt(bytes, offset) ==
  [hi |-> bytes[offset + 3] + 256 * bytes[offset + 4],
   lo |-> bytes[offset + 1] + 256 * bytes[offset + 2]]

\* the 16-bit little-endian field at a byte offset
shortAt(bytes, offset) == bytes[offset + 1] + 256 * bytes[offset + 2]

\* C31: for every dataLength L and sampleRate R below 2^32 the header carries
\* the markers RIFF, WAVE, 'fmt ' and data in ASCII order at offsets 0, 8, 12
\* and 36, audio format 1, 1 channel, block align 2 and 16 bits per sample,
\* and its 32-bit fields hold the exact values 36 + L, R, 2 * R and L.
C31_HeaderFieldsExact ==
  pc = "WavHeaderWideDone" =>
    LET L == hdrArgs[1]
        R == hdrArgs[2]
    IN /\ Len(wavHeader) = 44
       /\ SubSeq(wavHeader, 1, 4) = <<82, 73, 70, 70>>
       /\ SubSeq(wavHeader, 9, 12) = <<87, 65, 86, 69>>
       /\ SubSeq(wavHeader, 13, 16) = <<102, 109, 116, 32>>
       /\ SubSeq(wavHeader, 37, 40) = <<100, 97, 116, 97>>
       /\ shortAt(wavHeader, 20) = 1
       /\ shortAt(wavHeader, 22) = 1
       /\ shortAt(wavHeader, 32) = 2
       /\ shortAt(wavHeader, 34) = 16
       /\ halvesAt(wavHeader, 24) = R
       /\ halvesAt(wavHeader, 40) = L
       /\ halvesAt(wavHeader, 4)
            = [hi |-> L.hi + (L.lo + 36) \div 65536, lo |-> (L.lo + 36) % 65536]
       /\ halvesAt(wavHeader, 28)
            = [hi |-> 2 * R.hi + (2 * R.lo) \div 65536, lo |-> (2 * R.lo) % 65536]

\* the records the history holds, in memory or in the database
kept == Range(history) \cup store

\* C32: once clearHistory has completed, no record that existed when it was
\* called is in the in-memory history or in the database again, whatever
\* production run started before it completes after it.
C32_ClearedRecordsStayGone ==
  (ch.pc = "idle" /\ ch.before > 0) => \A r \in kept : r.id >= ch.before

\* the regeneration handlers, and for each the asset it replaces
Regenerations == {"clip", "thumbnail"}

assetOf(h, r) == IF h = "clip" THEN r.images ELSE r.thumbnail

otherOf(h) == IF h = "clip" THEN "thumbnail" ELSE "clip"

\* the step in which the regeneration h resolved: it is the one that calls
\* saveHistoryToDB
regenerated(h) == rg[h].pc = "awaiting" /\ rg'[h].pc = "idle" /\ dbCalls' # dbCalls

\* C33: when a regeneration resolves on the result it was started on and the
\* other regeneration has resolved on that result while it was in flight, the
\* displayed result and the history record of the production hold both new
\* assets.
C33_ConcurrentRegenerationsBothKept ==
  [][\A h \in Regenerations :
       (/\ regenerated(h)
        /\ result # NoValue
        /\ result.made = rg[h].result.made
        /\ assetOf(otherOf(h), result) # assetOf(otherOf(h), rg[h].result))
         => /\ assetOf(otherOf(h), result') = assetOf(otherOf(h), result)
            /\ assetOf(h, result') # assetOf(h, result)
            /\ \A n \in DOMAIN history' :
                 history'[n].id = result.made
                   => /\ assetOf(h, history'[n]) = assetOf(h, result')
                      /\ assetOf(otherOf(h), history'[n]) = assetOf(otherOf(h), result)]_vars

\* C34: when a regeneration resolves on the displayed result, just produced or
\* opened from the history, and the history holds the record of that
\* production, the record carries the new asset afterwards, in memory and, if
\* the save went through, in the database.
C34_RegenerationReachesHistory ==
  [][\A h \in Regenerations :
       (/\ regenerated(h)
        /\ \E n \in DOMAIN history : history[n].id = rg[h].result.made)
         => /\ \E n \in DOMAIN history' :
                 /\ history'[n].id = rg[h].result.made
                 /\ assetOf(h, history'[n]) = assetOf(h, result')
            /\ \/ store' = store
               \/ \E r \in store' : /\ r.id = rg[h].result.made
                                     /\ assetOf(h, r) = assetOf(h, result')]_vars

\* C35: a production run starts only when none is in flight, loading is true
\* exactly while a run is in flight, and the step that ends a run, whichever
\* way it ends, leaves loading false.
C35_LoadingExactlyWhileRunning ==
  /\ [](loading <=> hg.pc # "idle")
  /\ [][started'.runs # started.runs => (hg.pc = "idle" /\ ~loading /\ hg'.pc = "awaiting")]_vars
  /\ [][(hg.pc # "idle" /\ hg'.pc = "idle") => ~loading']_vars

\* A production has ended on a failed save of the history and nothing is loading.
C35_Witness ==
  /\ hg.pc = "idle"
  /\ hg.out.kind = "resolved"
  /\ ~hg.saved
  /\ Len(alerts) = 1
  /\ ~loading

\* C39: handleGenerate starts a production run (loading becomes true) only
\* with a prompt that is not blank and a total duration of at least 5
\* seconds; the call that returns early, with its alert or without, starts no
\* run, issues no remote call and leaves loading, progress, result and history
\* as they are.
C39_EarlyReturnChangesNothing ==
  /\ [][(~loading /\ loading') => (trim(uiPrompt) # "" /\ totalSecs(config) >= 5)]_vars
  /\ [][(pc = "Ready" /\ ~loading /\ (trim(uiPrompt) = "" \/ totalSecs(config) < 5)
          /\ config' = config /\ uiPrompt' = uiPrompt)
         => UNCHANGED <<loading, progress, result, history, called, inFlight, nCalls,
                        runConfig, store>>]_vars

\* handleGenerate has returned early on a duration below 5 seconds.
C39_Witness ==
  /\ Len(alerts) = 1
  /\ alerts[1].cause = "duration"
  /\ trim(uiPrompt) # ""
  /\ totalSecs(config) < 5
  /\ ~loading

====
